---- MODULE Spec2Model ----
(***************************************************************************)
(* Candidate Scoring Engine of "Full system/candidate_scorer":             *)
(* functions.py (normalizer, SectionIndex, CandidateScorer), driven        *)
(* directly (Spec); the health, load_profiles and score endpoints of       *)
(* server.py on the global SCORER (HttpSpec); the aggregation of a         *)
(* candidate's experience entries and the normalisation of the weights on  *)
(* their own (UnitSpec).                                                   *)
(*                                                                         *)
(* Encoding of the Python values                                           *)
(*   - a JSON value is a tagged record: [kind |-> "dict", d |-> f] with f  *)
(*     a function from key names to values, [kind |-> "list", items |-> s],*)
(*     [kind |-> "str", s |-> text], [kind |-> "num", halves |-> n],       *)
(*     [kind |-> "null"]; a string that encodes a Python/JSON literal      *)
(*     carries the decoded value in a further field lit;                   *)
(*   - a text is a sequence of tokens; " " is a run of whitespace and      *)
(*     "<b>" an HTML tag; "" is the empty sequence;                        *)
(*   - a float score is an integer number of 1/SCALE units; a language     *)
(*     level is an integer number of halves (0..4 for 0.0..2.0);           *)
(*   - an embedding is a direction 0..6 (steps of 30 degrees) and the      *)
(*     inner product of two unit vectors is the cosine of their angle.     *)
(***************************************************************************)
EXTENDS Integers, Sequences, FiniteSets, TLC

SCALE == 24 * 100

Min(a, b) == IF a < b THEN a ELSE b
Max(a, b) == IF a > b THEN a ELSE b

RECURSIVE SumSeq(_)
SumSeq(s) == IF s = <<>> THEN 0 ELSE Head(s) + SumSeq(Tail(s))

RECURSIVE Flatten(_)
Flatten(ss) == IF ss = <<>> THEN <<>> ELSE Head(ss) \o Flatten(Tail(ss))

\* sep.join(parts) on texts
RECURSIVE Join(_, _)
Join(parts, sep) ==
    IF parts = <<>> THEN <<>>
    ELSE IF Len(parts) = 1 THEN Head(parts)
    ELSE Head(parts) \o sep \o Join(Tail(parts), sep)

\* needle in hay, for texts
Contains(hay, needle) ==
    \E i \in 0..Len(hay) :
        /\ i + Len(needle) <= Len(hay)
        /\ \A j \in 1..Len(needle) : hay[i + j] = needle[j]

\* str.lower() on one token
Lower(tok) ==
    CASE tok = "English" -> "english"
      [] tok = "French" -> "french"
      [] tok = "Native" -> "native"
      [] tok = "Python" -> "python"
      [] OTHER -> tok

IsSpace(tok) == tok = " "

\* str.strip() on a text
RECURSIVE LStrip(_)
LStrip(t) == IF t # <<>> /\ IsSpace(Head(t)) THEN LStrip(Tail(t)) ELSE t

RECURSIVE RStrip(_)
RStrip(t) ==
    IF t # <<>> /\ IsSpace(t[Len(t)]) THEN RStrip(SubSeq(t, 1, Len(t) - 1)) ELSE t

Strip(t) == RStrip(LStrip(t))

\* re.sub(r"\s+", " ", s)
RECURSIVE CollapseSpace(_)
CollapseSpace(t) ==
    IF Len(t) < 2 THEN t
    ELSE IF IsSpace(t[1]) /\ IsSpace(t[2]) THEN CollapseSpace(Tail(t))
    ELSE <<Head(t)>> \o CollapseSpace(Tail(t))

normalize_text(s) ==
    LET s1 == Strip(s)
        s2 == [i \in 1..Len(s1) |-> IF s1[i] = "<b>" THEN " " ELSE s1[i]]
    IN  Strip(CollapseSpace(s2))

\* ---- JSON values ----
Null == [kind |-> "null"]
Str(t) == [kind |-> "str", s |-> t]
Num(h) == [kind |-> "num", halves |-> h]
List(xs) == [kind |-> "list", items |-> xs]
Dict(f) == [kind |-> "dict", d |-> f]
EmptyDict == Dict(<<>>)

IsDict(v) == v.kind = "dict"

\* bool(v)
Truthy(v) ==
    CASE v.kind = "null" -> FALSE
      [] v.kind = "str" -> v.s # <<>>
      [] v.kind = "num" -> v.halves # 0
      [] v.kind = "list" -> v.items # <<>>
      [] v.kind = "dict" -> v.d # <<>>

Has(d, k) == k \in DOMAIN d

\* dict.get(k): None when the key is missing
Get(d, k) == IF Has(d, k) THEN d[k] ELSE Null

\* a or b
Or(a, b) == IF Truthy(a) THEN a ELSE b

RECURSIVE get_field_from(_, _, _)
get_field_from(d, candidates, default) ==
    IF candidates = <<>> THEN default
    ELSE IF Has(d, Head(candidates)) /\ d[Head(candidates)].kind # "null"
         THEN d[Head(candidates)]
         ELSE get_field_from(d, Tail(candidates), default)

_get_field(v, candidates, default) ==
    IF ~IsDict(v) THEN default ELSE get_field_from(v.d, candidates, default)

\* (_get_field(e, ...) or "") of a string-valued field, as a text
TextOf(e, candidates) ==
    LET v == _get_field(e, candidates, Null)
    IN  IF Truthy(v) THEN v.s ELSE <<>>

NonEmpty(parts) == SelectSeq(parts, LAMBDA p : p # <<>>)

StripAll(parts) == [i \in 1..Len(parts) |-> Strip(parts[i])]

\* str(e) of a value that is neither a dict nor a str
StrOf(e) == <<"repr">>

RECURSIVE flatten_experience_list(_)
flatten_experience_list(exp_list) ==
    IF exp_list = <<>> THEN <<>>
    ELSE LET e == Head(exp_list)
             rest == flatten_experience_list(Tail(exp_list))
         IN  IF e.kind = "dict"
             THEN LET role == TextOf(e, <<"role", "title", "position", "job_title">>)
                      company == TextOf(e, <<"company", "employer", "organisation", "organization">>)
                      period == TextOf(e, <<"start_end", "duration", "dates", "date">>)
                      skills == TextOf(e, <<"skills", "keywords", "stack", "technologies">>)
                      desc == TextOf(e, <<"description", "summary", "details", "about">>)
                      location == TextOf(e, <<"location", "place">>)
                      seg == Join(StripAll(NonEmpty(<<role, company, period, location, skills, desc>>)), <<" ", "|", " ">>)
                  IN  IF seg # <<>> THEN <<seg>> \o rest ELSE rest
             ELSE IF e.kind = "str"
             THEN IF Strip(e.s) # <<>> THEN <<Strip(e.s)>> \o rest ELSE rest
             ELSE <<StrOf(e)>> \o rest

\* exp_list is a list, a dict holding "items"/"positions"/"roles", or a scalar
\* (a dict keyed by dates or companies is not among the inputs of this model)
RECURSIVE flatten_experience_items(_)
flatten_experience_items(exp_list) ==
    IF ~Truthy(exp_list) THEN <<>>
    ELSE IF exp_list.kind = "dict"
    THEN LET maybe_items == Or(Get(exp_list.d, "items"), Or(Get(exp_list.d, "positions"), Get(exp_list.d, "roles")))
         IN  IF Truthy(maybe_items) THEN flatten_experience_items(maybe_items) ELSE <<>>
    ELSE IF exp_list.kind = "list"
    THEN flatten_experience_list(exp_list.items)
    ELSE <<StrOf(exp_list)>>

RECURSIVE flatten_education_list(_)
flatten_education_list(edu_list) ==
    IF edu_list = <<>> THEN <<>>
    ELSE LET e == Head(edu_list)
             rest == flatten_education_list(Tail(edu_list))
         IN  IF e.kind = "dict"
             THEN LET inst == TextOf(e, <<"institution", "school", "college", "university">>)
                      field == TextOf(e, <<"field_of_study", "major", "degree">>)
                      period == TextOf(e, <<"start_end", "dates", "duration">>)
                      grade == TextOf(e, <<"grade", "score", "gpa">>)
                      desc == TextOf(e, <<"description", "notes", "summary">>)
                      seg == Join(StripAll(NonEmpty(<<inst, field, period, grade, desc>>)), <<" ", "|", " ">>)
                  IN  IF seg # <<>> THEN <<seg>> \o rest ELSE rest
             ELSE IF e.kind = "str"
             THEN <<Strip(e.s)>> \o rest
             ELSE <<StrOf(e)>> \o rest

\* edu_list is a list of records, or a dict (a wrapper of "items"/"degrees"/
\* "education", else one record)
RECURSIVE flatten_education(_)
flatten_education(edu_list) ==
    IF ~Truthy(edu_list) THEN <<>>
    ELSE IF edu_list.kind = "dict"
    THEN LET maybe == Or(Get(edu_list.d, "items"), Or(Get(edu_list.d, "degrees"), Get(edu_list.d, "education")))
         IN  IF Truthy(maybe) THEN flatten_education(maybe)
             ELSE Join(flatten_education_list(<<edu_list>>), <<" ">>)
    ELSE Join(flatten_education_list(edu_list.items), <<" ">>)

\* str(x) of a skills list element
StrItem(x) == IF x.kind = "str" THEN x.s ELSE StrOf(x)

\* sk is a list of skills or one string
flatten_skills(sk) ==
    IF ~Truthy(sk) THEN <<>>
    ELSE IF sk.kind = "list"
    THEN Join([i \in 1..Len(sk.items) |-> StrItem(sk.items[i])], <<" ", ";", " ">>)
    ELSE IF sk.kind = "str" THEN sk.s
    ELSE StrOf(sk)

\* ---- parse_languages ----
RECURSIVE LowerText(_)
LowerText(t) == IF t = <<>> THEN <<>> ELSE <<Lower(Head(t))>> \o LowerText(Tail(t))

\* index of the first token of t that is in seps, 0 if none
RECURSIVE FirstSep(_, _, _)
FirstSep(t, seps, i) ==
    IF i > Len(t) THEN 0
    ELSE IF t[i] \in seps THEN i ELSE FirstSep(t, seps, i + 1)

\* re.split(seps, t, maxsplit=1)
SplitOnce(t, seps) ==
    LET i == FirstSep(t, seps, 1)
    IN  IF i = 0 THEN <<t>> ELSE <<SubSeq(t, 1, i - 1), SubSeq(t, i + 1, Len(t))>>

\* re.split(seps, t)
RECURSIVE SplitAll(_, _)
SplitAll(t, seps) ==
    LET i == FirstSep(t, seps, 1)
    IN  IF i = 0 THEN <<t>>
        ELSE <<SubSeq(t, 1, i - 1)>> \o SplitAll(SubSeq(t, i + 1, Len(t)), seps)

\* the texts float() accepts, with their value in halves
FloatTexts == {<<"0">>, <<"1">>, <<"1.5">>, <<"2">>, <<"9">>, <<"-1">>}

FloatOfText(t) ==
    CASE t = <<"0">> -> 0
      [] t = <<"1">> -> 2
      [] t = <<"1.5">> -> 3
      [] t = <<"2">> -> 4
      [] t = <<"9">> -> 18
      [] t = <<"-1">> -> -2

\* float(v) succeeds
FloatOk(v) ==
    \/ v.kind = "num"
    \/ v.kind = "str" /\ Strip(v.s) \in FloatTexts

FloatOf(v) == IF v.kind = "num" THEN v.halves ELSE FloatOfText(Strip(v.s))

MpGet_DefaultZero(s, withMotherTongue) ==
    CASE s = <<"native">> -> 4
      [] s = <<"mother", " ", "tongue">> /\ withMotherTongue -> 4
      [] s = <<"fluent">> -> 4
      [] s = <<"advanced">> -> 4
      [] s = <<"intermediate">> -> 2
      [] s = <<"basic">> -> 0
      [] OTHER -> 0

\* mp.get(s, 1.0), in halves; the table of the dict-item branch also knows
\* "mother tongue"
MpGet(s, withMotherTongue) ==
    CASE s = <<"native">> -> 4
      [] s = <<"mother", " ", "tongue">> /\ withMotherTongue -> 4
      [] s = <<"fluent">> -> 4
      [] s = <<"advanced">> -> 4
      [] s = <<"intermediate">> -> 2
      [] s = <<"basic">> -> 0
      [] OTHER -> 2

\* float(max(0.0, min(2.0, lvl)))
ClampLevel(lvl) == Max(0, Min(4, lvl))

\* str(v) as a text
StrText(v) == IF v.kind = "str" THEN v.s ELSE StrOf(v)

LangOfDictItem(it) ==
    LET name == Or(_get_field(it, <<"language", "name">>, Str(<<>>)), Str(<<>>))
        lvl == _get_field(it, <<"level", "proficiency">>, Num(0))
        lv == IF FloatOk(lvl) THEN FloatOf(lvl)
              ELSE MpGet(LowerText(StrText(lvl)), TRUE)
    IN  [language |-> Strip(StrText(name)), level |-> ClampLevel(lv)]

LangOfStrItem(it) ==
    LET parts == SplitOnce(it.s, {":", "-"})
        name == Strip(parts[1])
        lv == IF Len(parts) > 1
              THEN IF Strip(parts[2]) \in FloatTexts
                   THEN FloatOfText(Strip(parts[2]))
                   ELSE MpGet(LowerText(Strip(parts[2])), FALSE)
              ELSE 2
    IN  [language |-> name, level |-> ClampLevel(lv)]

RECURSIVE LangsOfList(_)
LangsOfList(items) ==
    IF items = <<>> THEN <<>>
    ELSE LET it == Head(items)
             rest == LangsOfList(Tail(items))
         IN  IF it.kind = "dict" THEN <<LangOfDictItem(it)>> \o rest
             ELSE IF it.kind = "str" THEN <<LangOfStrItem(it)>> \o rest
             ELSE rest

\* the keys of a dict in a fixed order
RECURSIVE KeySeq(_)
KeySeq(keys) ==
    IF keys = {} THEN <<>>
    ELSE LET k == CHOOSE x \in keys : TRUE IN <<k>> \o KeySeq(keys \ {k})

LangOfDictEntry(k, v) ==
    LET lv == IF FloatOk(v) THEN FloatOf(v) ELSE MpGet(LowerText(StrText(v)), FALSE)
    IN  [language |-> Strip(<<k>>), level |-> ClampLevel(lv)]

LangsOfString(t) ==
    LET parts == StripAll(SplitAll(t, {",", "|", ";"}))
        kept == NonEmpty(parts)
    IN  [i \in 1..Len(kept) |-> [language |-> kept[i], level |-> 2]]

parse_languages(langs_field) ==
    IF ~Truthy(langs_field) THEN <<>>
    ELSE IF langs_field.kind = "list" THEN LangsOfList(langs_field.items)
    ELSE IF langs_field.kind = "dict"
    THEN LET ks == KeySeq(DOMAIN langs_field.d)
         IN  [i \in 1..Len(ks) |-> LangOfDictEntry(ks[i], langs_field.d[ks[i]])]
    ELSE IF langs_field.kind = "str" THEN LangsOfString(langs_field.s)
    ELSE <<>>

\* ---- embedder and SectionIndex ----
\* round(SCALE * cos(k * 30 degrees)), k = 0..6; two float32 unit vectors of
\* the same direction can have an inner product one unit above 1.0
CosTab == <<SCALE + 1, 2078, 1200, 0, -1200, -2078, -SCALE>>

\* the direction a word contributes to the embedding of a text
WordAngle(tok) ==
    CASE tok = "python" -> 0
      [] tok = "backend" -> 1
      [] tok = "ml" -> 2
      [] tok = "go" -> 3
      [] tok = "cobol" -> 6
      [] tok = "msc" -> 1
      [] tok = "phd" -> 4
      [] tok \in {" ", ";", "|"} -> 0
      [] OTHER -> 5

RECURSIVE AngleSum(_)
AngleSum(t) == IF t = <<>> THEN 0 ELSE WordAngle(Head(t)) + AngleSum(Tail(t))

\* model.encode followed by faiss.normalize_L2, for one text
Encode(t) == AngleSum(t) % 7

\* _embed_texts: one batched call
_embed_texts(texts) == [i \in 1..Len(texts) |-> Encode(texts[i])]

InnerProduct(u, v) == CosTab[(IF u >= v THEN u - v ELSE v - u) + 1]

\* SectionIndex.__init__
NewIndex == [vectors |-> <<>>, id_to_meta |-> <<>>, next_id |-> 0]

IndexAdd_ResetMeta(idx, embeddings, metas) ==
    LET n == Len(embeddings)
        ids == [i \in 1..n |-> idx.next_id + i - 1]
    IN  IF n = 0 THEN idx
        ELSE [vectors |-> idx.vectors \o [i \in 1..n |-> [id |-> ids[i], vec |-> embeddings[i]]],
              id_to_meta |-> [k \in {ids[i] : i \in 1..n} |-> metas[k - idx.next_id + 1]],
              next_id |-> idx.next_id + n]

IndexAdd_ReuseIds(idx, embeddings, metas) ==
    LET n == Len(embeddings)
        ids == [i \in 1..n |-> idx.next_id + i - 1]
    IN  IF n = 0 THEN idx
        ELSE [vectors |-> idx.vectors \o [i \in 1..n |-> [id |-> ids[i], vec |-> embeddings[i]]],
              id_to_meta |-> [k \in DOMAIN idx.id_to_meta \cup {ids[i] : i \in 1..n} |->
                                 IF k >= idx.next_id THEN metas[k - idx.next_id + 1]
                                 ELSE idx.id_to_meta[k]],
              next_id |-> idx.next_id + n - 1]

\* SectionIndex.add; embeddings and metas have the same length
IndexAdd(idx, embeddings, metas) ==
    LET n == Len(embeddings)
        ids == [i \in 1..n |-> idx.next_id + i - 1]
    IN  IF n = 0 THEN idx
        ELSE [vectors |-> idx.vectors \o [i \in 1..n |-> [id |-> ids[i], vec |-> embeddings[i]]],
              id_to_meta |-> [k \in DOMAIN idx.id_to_meta \cup {ids[i] : i \in 1..n} |->
                                 IF k >= idx.next_id THEN metas[k - idx.next_id + 1]
                                 ELSE idx.id_to_meta[k]],
              next_id |-> idx.next_id + n]

\* the value SectionIndex.add returns
IndexAddReturn(embeddings) == Len(embeddings)

RECURSIVE InsertDesc_Unstable(_, _)
InsertDesc_Unstable(sorted, x) ==
    IF sorted = <<>> THEN <<x>>
    ELSE IF x.key >= Head(sorted).key THEN <<x>> \o sorted
    ELSE <<Head(sorted)>> \o InsertDesc_Unstable(Tail(sorted), x)

\* sorted(xs, key=..., reverse=True) on records that carry their key:
\* stable, equal keys keep their order
RECURSIVE InsertDesc(_, _)
InsertDesc(sorted, x) ==
    IF sorted = <<>> THEN <<x>>
    ELSE IF x.key > Head(sorted).key THEN <<x>> \o sorted
    ELSE <<Head(sorted)>> \o InsertDesc(Tail(sorted), x)

RECURSIVE SortDesc(_)
SortDesc(xs) ==
    IF xs = <<>> THEN <<>>
    ELSE InsertDesc(SortDesc(SubSeq(xs, 1, Len(xs) - 1)), xs[Len(xs)])

\* index.search of the flat inner-product index: the top_k best (D, I) pairs
\* in descending order, padded with id -1 when fewer vectors are stored
FaissSearch(vectors, q_emb, top_k) ==
    LET scored == [i \in 1..Len(vectors) |->
                      [key |-> InnerProduct(vectors[i].vec, q_emb), idx |-> vectors[i].id]]
        ranked == SortDesc(scored)
    IN  [i \in 1..top_k |-> IF i <= Len(ranked) THEN ranked[i]
                            ELSE [key |-> -SCALE, idx |-> -1]]

IndexSearch_KeepPadded(idx, q_emb, top_k) ==
    IF Len(idx.vectors) = 0 THEN <<>>
    ELSE LET DI == FaissSearch(idx.vectors, q_emb, top_k)
         IN  [i \in 1..Len(DI) |->
                 [score |-> DI[i].key,
                  meta |-> IF DI[i].idx \in DOMAIN idx.id_to_meta
                           THEN idx.id_to_meta[DI[i].idx] ELSE <<>>]]

\* SectionIndex.search
IndexSearch(idx, q_emb, top_k) ==
    IF Len(idx.vectors) = 0 THEN <<>>
    ELSE LET DI == FaissSearch(idx.vectors, q_emb, top_k)
             kept == SelectSeq(DI, LAMBDA r : ~(r.idx < 0))
         IN  [i \in 1..Len(kept) |->
                 [score |-> kept[i].key,
                  meta |-> IF kept[i].idx \in DOMAIN idx.id_to_meta
                           THEN idx.id_to_meta[kept[i].idx] ELSE <<>>]]

\* ---- unwrapping of a file's content ----
try_parse_maybe_string(obj) ==
    IF obj.kind # "str" THEN obj
    ELSE LET s == Strip(obj.s)
         IN  IF s = <<>> THEN obj
             ELSE IF s[1] \in {"{", "["} /\ s[Len(s)] \in {"}", "]"}
             THEN IF Has(obj, "lit") THEN obj.lit ELSE obj
             ELSE obj

\* one element r of blob["results"]
ProfilesOfResultsItem(r) ==
    LET r2 == try_parse_maybe_string(r)
    IN  IF ~IsDict(r2) THEN <<>>
        ELSE IF Has(r2.d, "profile") /\ IsDict(r2.d["profile"]) THEN <<r2.d["profile"]>>
        ELSE IF Has(r2.d, "person") /\ IsDict(r2.d["person"]) THEN <<r2.d["person"]>>
        ELSE IF Has(r2.d, "candidate") /\ IsDict(r2.d["candidate"]) THEN <<r2.d["candidate"]>>
        ELSE <<r2>>

RECURSIVE ProfilesOfResults(_)
ProfilesOfResults(rs) ==
    IF rs = <<>> THEN <<>> ELSE ProfilesOfResultsItem(Head(rs)) \o ProfilesOfResults(Tail(rs))

\* inner[k] = blob[k] for the keys of blob that inner lacks
MergeTopLevel(blob, inner) ==
    LET ks == {k \in {"url", "candidate_id", "profile_url", "id"} : Has(blob.d, k) /\ ~Has(inner.d, k)}
    IN  Dict([k \in DOMAIN inner.d \cup ks |-> IF k \in ks THEN blob.d[k] ELSE inner.d[k]])

RECURSIVE DictsOfList(_)
DictsOfList(items) ==
    IF items = <<>> THEN <<>>
    ELSE LET item2 == try_parse_maybe_string(Head(items))
         IN  (IF IsDict(item2) THEN <<item2>> ELSE <<>>) \o DictsOfList(Tail(items))

extract_profiles_from_blob(blob) ==
    IF IsDict(blob)
    THEN IF Has(blob.d, "results") /\ blob.d["results"].kind = "list"
         THEN ProfilesOfResults(blob.d["results"].items)
         ELSE IF Has(blob.d, "result") /\ IsDict(try_parse_maybe_string(blob.d["result"]))
         THEN <<MergeTopLevel(blob, try_parse_maybe_string(blob.d["result"]))>>
         ELSE <<blob>>
    ELSE IF blob.kind = "list" THEN DictsOfList(blob.items)
    ELSE LET p == try_parse_maybe_string(blob)
         IN  IF IsDict(p) THEN <<p>> ELSE <<>>

\* os.path.splitext(os.path.basename(path))[0]; a path is modelled by this stem
Stem(path) == <<path>>

_extract_candidate_id(profile, path) ==
    LET cid == _get_field(profile, <<"id", "candidate_id", "profile_id", "uid", "user_id">>, Null)
        url == _get_field(profile, <<"url", "linkedin", "linkedin_url", "profile_url">>, Null)
    IN  IF Truthy(cid) THEN StrText(cid)
        ELSE IF Truthy(url) THEN StrText(url)
        ELSE Stem(path)

\* ---- CandidateScorer.add_profiles ----
\* position of cid in the Candidate Store (a dict, kept in insertion order), 0 if absent
RECURSIVE StoreFind(_, _, _)
StoreFind(store, cid, i) ==
    IF i > Len(store) THEN 0
    ELSE IF store[i].cid = cid THEN i ELSE StoreFind(store, cid, i + 1)

StorePut_Append(store, cid, profile) == Append(store, [cid |-> cid, profile |-> profile])

StorePut_DropOthers(store, cid, profile) == <<[cid |-> cid, profile |-> profile]>>

\* self.profiles[cid] = profile
StorePut(store, cid, profile) ==
    LET i == StoreFind(store, cid, 1)
    IN  IF i = 0 THEN Append(store, [cid |-> cid, profile |-> profile])
        ELSE [store EXCEPT ![i] = [cid |-> cid, profile |-> profile]]

StoreKeys(store) == {store[i].cid : i \in 1..Len(store)}

\* s[:300]; a token stands for four characters
Excerpt(t) == SubSeq(t, 1, Min(Len(t), 75))

\* isinstance(c, str) and len(c) > 10; a token stands for four characters
IsLongString(c) == c.kind = "str" /\ Len(c.s) >= 3

RECURSIVE FirstLongString(_)
FirstLongString(cands) ==
    IF cands = <<>> THEN <<>>
    ELSE IF IsLongString(Head(cands)) THEN Head(cands).s
    ELSE FirstLongString(Tail(cands))

\* about is prepended to the skills text unless the text already holds it
WithAbout(about, sk_txt) ==
    IF about # <<>> /\ ~Contains(sk_txt, about)
    THEN IF sk_txt # <<>> THEN about \o <<" ">> \o sk_txt ELSE about
    ELSE sk_txt

\* the skills text of a profile dict, first loop (lines 334-348)
SkillsTextOf(profile) ==
    LET d == profile.d
        about == Or(Get(d, "summary"), Or(Get(d, "about"), Or(Get(d, "headline"), Str(<<>>)))).s
        sk_src == Or(Get(d, "skills"), Or(Get(d, "skill"), Or(Get(d, "skill_set"),
                     Or(Get(d, "keywords"), Get(d, "skills_list")))))
        sk_txt == IF sk_src.kind # "null" THEN flatten_skills(sk_src) ELSE <<>>
        sk_txt2 == IF sk_txt = <<>>
                   THEN FirstLongString(<<Get(d, "summary"), Get(d, "about"),
                                          Get(d, "description"), Get(d, "details")>>)
                   ELSE sk_txt
    IN  WithAbout(about, sk_txt2)

ExperienceItemsOf(profile) ==
    LET d == profile.d
        exp_src == Or(Get(d, "experience"), Or(Get(d, "work_experience"),
                      Or(Get(d, "positions"), Or(Get(d, "jobs"), List(<<>>)))))
    IN  flatten_experience_items(Or(exp_src, List(<<>>)))

EducationTextOf(profile) ==
    LET d == profile.d
        edu_src == Or(Get(d, "education"), Or(Get(d, "studies"),
                      Or(Get(d, "education_history"), List(<<>>))))
    IN  flatten_education(Or(edu_src, List(<<>>)))

\* the same three extractions in the second loop (lines 394-427), which reads
\* the fields with _get_field
SkillsTextOf2(profile) ==
    LET d == profile.d
        about == Or(_get_field(profile, <<"summary", "about", "headline">>, Str(<<>>)), Str(<<>>)).s
        sk_src == _get_field(profile, <<"skills", "skill", "skill_set", "keywords", "skills_list">>, Null)
        sk_txt == IF sk_src.kind # "null" THEN flatten_skills(sk_src) ELSE <<>>
        sk_txt2 == IF sk_txt = <<>>
                   THEN FirstLongString(<<Get(d, "skills"), Get(d, "summary"), Get(d, "about"),
                                          Get(d, "description"), Get(d, "details")>>)
                   ELSE sk_txt
    IN  WithAbout(about, sk_txt2)

ExperienceItemsOf2(profile) ==
    flatten_experience_items(
        Or(_get_field(profile, <<"experience", "work_experience", "positions", "jobs">>, List(<<>>)),
           List(<<>>)))

EducationTextOf2(profile) ==
    flatten_education(
        Or(_get_field(profile, <<"education", "studies", "education_history">>, List(<<>>)),
           List(<<>>)))

\* the local lists of add_profiles, with the Candidate Store they go with
NewLists(store) ==
    [profiles |-> store, raised |-> FALSE,
     skills_texts |-> <<>>, skills_meta |-> <<>>,
     exp_texts |-> <<>>, exp_meta |-> <<>>,
     edu_texts |-> <<>>, edu_meta |-> <<>>]

\* lines 332-367 and 391-430: store the profile, append its section texts
Collect(acc, cid, profile, path, sk_txt, exp_items, edu_txt) ==
    [profiles |-> StorePut(acc.profiles, cid, profile),
     raised |-> FALSE,
     skills_texts |-> IF sk_txt # <<>> THEN Append(acc.skills_texts, normalize_text(sk_txt))
                      ELSE acc.skills_texts,
     skills_meta |-> IF sk_txt # <<>>
                     THEN Append(acc.skills_meta,
                                 [candidate_id |-> cid, section |-> "skills",
                                  excerpt |-> Excerpt(sk_txt), origin |-> path])
                     ELSE acc.skills_meta,
     exp_texts |-> acc.exp_texts \o [i \in 1..Len(exp_items) |-> normalize_text(exp_items[i])],
     exp_meta |-> acc.exp_meta \o
                  [i \in 1..Len(exp_items) |->
                      [candidate_id |-> cid, section |-> "experience",
                       excerpt |-> Excerpt(exp_items[i]), origin |-> path, item_idx |-> i - 1]],
     edu_texts |-> IF edu_txt # <<>> THEN Append(acc.edu_texts, normalize_text(edu_txt))
                   ELSE acc.edu_texts,
     edu_meta |-> IF edu_txt # <<>>
                  THEN Append(acc.edu_meta,
                              [candidate_id |-> cid, section |-> "education",
                               excerpt |-> Excerpt(edu_txt), origin |-> path])
                  ELSE acc.edu_meta]

RECURSIVE CollectProfiles(_, _, _)
CollectProfiles(acc, profile_blobs, path) ==
    IF profile_blobs = <<>> THEN acc
    ELSE LET profile == Head(profile_blobs)
             cid == _extract_candidate_id(profile, path)
         IN  CollectProfiles(
                 Collect(acc, cid, profile, path, SkillsTextOf(profile),
                         ExperienceItemsOf(profile), EducationTextOf(profile)),
                 Tail(profile_blobs), path)

\* the profile dicts add_profiles takes from one loaded file (lines 318-326)
ProfileBlobsOf(raw) ==
    LET profile_blobs == extract_profiles_from_blob(raw)
        parsed == try_parse_maybe_string(raw)
    IN  IF profile_blobs = <<>> /\ IsDict(parsed) THEN <<parsed>> ELSE profile_blobs

\* first loop over json_paths (lines 310-367); a file is
\* [path, ok (json.load succeeds), raw (the loaded value)]
RECURSIVE FirstLoop(_, _)
FirstLoop(acc, files) ==
    IF files = <<>> THEN acc
    ELSE LET f == Head(files)
         IN  IF ~f.ok THEN FirstLoop(acc, Tail(files))
             ELSE FirstLoop(CollectProfiles(acc, ProfileBlobsOf(f.raw), f.path), Tail(files))

\* second loop over json_paths (lines 383-430): the loaded value itself is
\* taken as the profile; profile.get raises on a value that is not a dict
RECURSIVE SecondLoop(_, _)
SecondLoop(acc, files) ==
    IF files = <<>> THEN acc
    ELSE LET f == Head(files)
             profile == f.raw
             cid == _extract_candidate_id(profile, f.path)
         IN  IF ~f.ok THEN SecondLoop(acc, Tail(files))
             ELSE IF ~IsDict(profile)
             THEN [acc EXCEPT !.profiles = StorePut(acc.profiles, cid, profile), !.raised = TRUE]
             ELSE SecondLoop(
                      Collect(acc, cid, profile, f.path, SkillsTextOf2(profile),
                              ExperienceItemsOf2(profile), EducationTextOf2(profile)),
                      Tail(files))

\* "if texts: emb = self._embed_texts(texts); idx.add(emb, meta)" on the run
\* so far; r = [self, raised, error, calls]; the embedder raises when failHere
EmbedAndAdd(r, field, texts, metas, failHere) ==
    IF r.raised \/ texts = <<>> THEN r
    ELSE IF failHere THEN [r EXCEPT !.raised = TRUE, !.error = "EmbedderError", !.calls = @ + 1]
    ELSE [r EXCEPT !.self[field] = IndexAdd(@, _embed_texts(texts), metas), !.calls = @ + 1]

\* the three "if texts:" blocks that follow a loop, on the lists a the loop
\* collected; the embedder calls are numbered from base + 1
EmbedLists(r, a, fail, base) ==
    EmbedAndAdd(
        EmbedAndAdd(
            EmbedAndAdd(r, "skills_idx", a.skills_texts, a.skills_meta, fail = base + 1),
            "exp_idx", a.exp_texts, a.exp_meta, fail = base + 2),
        "edu_idx", a.edu_texts, a.edu_meta, fail = base + 3)

\* lines 369-378 on the lists a1 of the first loop
AfterFirstLoop(self, a1, fail) ==
    EmbedLists([self |-> [self EXCEPT !.profiles = a1.profiles], raised |-> FALSE, error |-> "",
                calls |-> 0],
               a1, fail, 0)

\* lines 432-440 on the lists a2 of the second loop
AfterSecondLoop(r3, a2, fail) ==
    EmbedLists([r3 EXCEPT !.self.profiles = a2.profiles, !.raised = a2.raised,
                          !.error = IF a2.raised THEN "AttributeError" ELSE @], a2, fail, 3)

\* the second loop is nested in "if edu_texts:" and so runs only when the
\* first loop collected an education text
EducationBlock(r3, a1, files, fail) ==
    IF r3.raised \/ a1.edu_texts = <<>> THEN r3
    ELSE AfterSecondLoop(r3, SecondLoop(NewLists(r3.self.profiles), files), fail)

FromFirstLoop(self, a1, files, fail) ==
    EducationBlock(AfterFirstLoop(self, a1, fail), a1, files, fail)

\* add_profiles(json_paths) on the engine self; fail numbers the embedder call
\* (1..3 after the first loop, 4..6 after the second) that raises, 0 if none.
\* Result: the engine afterwards, whether the call raised (and the exception,
\* "" if none), and the number of embedder calls made.
add_profiles(self, files, fail) ==
    FromFirstLoop(self, FirstLoop(NewLists(self.profiles), files), files, fail)

\* ---- scoring ----
\* DEFAULT_WEIGHTS, in tenths
DEFAULT_WEIGHTS == [experience |-> 4, skills |-> 4, education |-> 2, languages |-> 1]

\* round(1000 * ln(1 + n)) for n = 1..12
LnTab == <<693, 1099, 1386, 1609, 1792, 1946, 2079, 2197, 2303, 2398, 2485, 2565>>

Clamp01_Unclamped(x) == x

\* max(0.0, min(1.0, x))
Clamp01(x) == Max(0, Min(SCALE, x))

\* the candidate ids of the hits, skipping hits without one
HitCids(results) ==
    {results[i].meta.candidate_id : i \in {j \in 1..Len(results) :
        Has(results[j].meta, "candidate_id") /\ results[j].meta.candidate_id # <<>>}}

\* per_candidate_entries[cid]
ScoresOf(results, cid) ==
    LET mine == SelectSeq(results, LAMBDA r : Has(r.meta, "candidate_id") /\ r.meta.candidate_id = cid)
    IN  [i \in 1..Len(mine) |-> mine[i].score]

Aggregate_NoClamp(mode, scores) ==
    LET n == Len(scores)
        ssum == SumSeq(scores)
    IN  IF mode = "sum" THEN ssum
        ELSE IF mode = "mean" THEN (IF n > 0 THEN ssum \div n ELSE 0)
        ELSE (ssum * 1000) \div (1000 + LnTab[n])

Aggregate_NormByCount(mode, scores) ==
    LET n == Len(scores)
        ssum == SumSeq(scores)
        agg == IF mode = "sum" THEN ssum
               ELSE IF mode = "mean" THEN (IF n > 0 THEN ssum \div n ELSE 0)
               ELSE ssum \div (1 + n)
    IN  Clamp01(agg)

\* the aggregate of one candidate's matching experience entries
Aggregate(mode, scores) ==
    LET n == Len(scores)
        ssum == SumSeq(scores)
        agg == IF mode = "sum" THEN ssum
               ELSE IF mode = "mean" THEN (IF n > 0 THEN ssum \div n ELSE 0)
               ELSE (ssum * 1000) \div (1000 + LnTab[n])
    IN  Clamp01(agg)

_compute_experience_scores(self, job_text, top_k) ==
    LET q_emb == Encode(normalize_text(job_text))
        results == IndexSearch(self.exp_idx, q_emb, top_k)
    IN  [cid \in HitCids(results) |-> Aggregate(self.exp_agg_mode, ScoresOf(results, cid))]

RECURSIVE MaxFrom(_, _)
MaxFrom(best, scores) ==
    IF scores = <<>> THEN best ELSE MaxFrom(Max(best, Head(scores)), Tail(scores))

_compute_section_best(self, job_text, section_idx, top_k) ==
    LET q_emb == Encode(normalize_text(job_text))
        results == IndexSearch(section_idx, q_emb, top_k)
    IN  [cid \in HitCids(results) |-> Clamp01(MaxFrom(0, ScoresOf(results, cid)))]

RECURSIVE LangRaw_NoHalfCredit(_, _)
LangRaw_NoHalfCredit(langs, jt) ==
    IF langs = <<>> THEN 0
    ELSE LET name == LowerText(Head(langs).language)
             lvl == Head(langs).level
         IN  (IF name # <<>> /\ Contains(jt, name) THEN 2 * lvl ELSE 0) + LangRaw_NoHalfCredit(Tail(langs), jt)

\* raw of _language_score in quarters of a level: the level when the name
\* occurs in the job text, half of it otherwise
RECURSIVE LangRaw(_, _)
LangRaw(langs, jt) ==
    IF langs = <<>> THEN 0
    ELSE LET name == LowerText(Head(langs).language)
             lvl == Head(langs).level
         IN  (IF name # <<>> /\ Contains(jt, name) THEN 2 * lvl ELSE lvl) + LangRaw(Tail(langs), jt)

_language_score(profile, job_text) ==
    LET langs == parse_languages(_get_field(profile, <<"languages", "language", "langs">>, List(<<>>)))
        jt == LowerText(normalize_text(job_text))
        raw == LangRaw(langs, jt)
        denom == 8 * Len(langs)
    IN  IF langs = <<>> THEN 0
        ELSE IF denom > 0 THEN Clamp01((SCALE * raw) \div denom) ELSE 0

\* dict.get(k, 0.0) on a score or weight mapping
GetOr0(f, k) == IF k \in DOMAIN f THEN f[k] ELSE 0

RECURSIVE SumOver(_, _)
SumOver(f, keys) ==
    IF keys = {} THEN 0
    ELSE LET k == CHOOSE x \in keys : TRUE IN f[k] + SumOver(f, keys \ {k})

Sign(x) == IF x < 0 THEN -1 ELSE 1
Abs(x) == IF x < 0 THEN -x ELSE x

ResultOf_NoLanguages(self, cid, profile, job_text, weights, s, exp_scores, skills_scores, edu_scores) ==
    LET se == GetOr0(exp_scores, cid)
        ss == GetOr0(skills_scores, cid)
        sedu == GetOr0(edu_scores, cid)
        lscore == _language_score(profile, job_text)
        total == GetOr0(weights, "experience") * se + GetOr0(weights, "skills") * ss
                 + GetOr0(weights, "education") * sedu
    IN  [candidate_id |-> cid,
         score |-> [num |-> Sign(s) * total, den |-> IF s = 0 THEN 1 ELSE Abs(s)],
         breakdown |-> [experience |-> se, skills |-> ss, education |-> sedu, languages |-> lscore]]

\* one element of out: the total is the fraction num / den of SCALE units,
\* norm_w[k] being weights[k] / s
ResultOf(self, cid, profile, job_text, weights, s, exp_scores, skills_scores, edu_scores) ==
    LET se == GetOr0(exp_scores, cid)
        ss == GetOr0(skills_scores, cid)
        sedu == GetOr0(edu_scores, cid)
        lscore == _language_score(profile, job_text)
        total == GetOr0(weights, "experience") * se + GetOr0(weights, "skills") * ss
                 + GetOr0(weights, "education") * sedu + GetOr0(weights, "languages") * lscore
    IN  [candidate_id |-> cid,
         score |-> [num |-> Sign(s) * total, den |-> IF s = 0 THEN 1 ELSE Abs(s)],
         breakdown |-> [experience |-> se, skills |-> ss, education |-> sedu, languages |-> lscore]]

ScoreError_EmptyStore(self, w, s, fail) ==
    IF Len(self.profiles) = 0 THEN "ValueError"
    ELSE IF s = 0 /\ DOMAIN w # {} THEN "ZeroDivisionError"
    ELSE IF fail # 0 THEN "EmbedderError"
    ELSE ""

\* the exception that ends a score call, "" if none: float(v)/s of line 500
\* divides by zero when the mapping has a value and the values sum to 0 (an
\* empty mapping divides nothing); the encode calls of lines 502-504 raise
\* when the embedder fails
ScoreError(self, w, s, fail) ==
    IF s = 0 /\ DOMAIN w # {} THEN "ZeroDivisionError"
    ELSE IF fail # 0 THEN "EmbedderError"
    ELSE ""

\* CandidateScorer.score; weights is <<>> for None, else <<mapping>>; fail
\* numbers the encode call of the job text (1..3) that raises, 0 if none (the
\* three calls encode the same text, so the first is the one that raises).
\* Result: whether the call raised, the returned list, the encode calls made.
score(self, job_text, weights, top_k_search, fail) ==
    LET w == IF weights = <<>> THEN DEFAULT_WEIGHTS ELSE weights[1]
        s == SumOver(w, DOMAIN w)
        err == ScoreError(self, w, s, fail)
        exp_scores == _compute_experience_scores(self, job_text, top_k_search)
        skills_scores == _compute_section_best(self, job_text, self.skills_idx, top_k_search)
        edu_scores == _compute_section_best(self, job_text, self.edu_idx, top_k_search)
        out == [i \in 1..Len(self.profiles) |->
                   ResultOf(self, self.profiles[i].cid, self.profiles[i].profile, job_text,
                            w, s, exp_scores, skills_scores, edu_scores)]
        keyed == [i \in 1..Len(out) |-> [key |-> out[i].score.num, r |-> out[i]]]
        sorted == SortDesc(keyed)
    IN  IF err # ""
        THEN [raised |-> TRUE, error |-> err, value |-> <<>>,
              calls |-> IF err = "EmbedderError" THEN fail ELSE 0]
        ELSE [raised |-> FALSE, error |-> "", value |-> [i \in 1..Len(sorted) |-> sorted[i].r], calls |-> 3]

\* ---- inputs ----
MaxAdds == 2
MaxTopK == 2
MaxLoads == 2
MaxScores == 1

T(w) == Str(<<w>>)

\* a string holding the literal of a dict
Literal(v) == [kind |-> "str", s |-> <<"{", "...", "}">>, lit |-> v]

File(path, raw) == [path |-> path, ok |-> TRUE, raw |-> raw]
BadFile(path) == [path |-> path, ok |-> FALSE, raw |-> Null]

Alice ==
    Dict([id |-> T("alice"),
          skills |-> List(<<T("python"), T("ml")>>),
          experience |-> List(<<Dict([role |-> T("backend"), company |-> T("acme"), skills |-> T("go")]),
                                T("python"), T(" "), EmptyDict>>),
          languages |-> List(<<Dict([language |-> T("English"), level |-> T("Native")])>>)])

\* the same candidate with every section removed
AliceBare == Dict([id |-> T("alice"), url |-> T("u-alice")])

Bob ==
    Dict([candidate_id |-> T("bob"),
          summary |-> Str(<<"python", " ", "backend", " ", "go">>),
          experience |-> Dict([items |-> List(<<T("cobol"), T("backend")>>)]),
          languages |-> Str(<<"French", ",", " ", "English">>)])

\* a present but empty id, and an education that starts the second loop
Carol ==
    Dict([id |-> Str(<<>>), candidate_id |-> T("carol"), url |-> T("u-carol"),
          skills |-> T("python"),
          education |-> List(<<Dict([institution |-> T("mit"), degree |-> T("msc")]), T("phd")>>),
          languages |-> Dict([English |-> Num(3), French |-> T("weird")])])

Dan ==
    Dict([uid |-> T("dan"), headline |-> T("<b>"),
          education |-> Dict([school |-> T("eth")]),
          languages |-> List(<<T("English"), Str(<<"French", ":", "9">>),
                               Str(<<"Python", "-", "basic">>)>>)])

\* a level only the table of the dict items knows, and an entry without a name
Eve ==
    Dict([linkedin |-> T("u-eve"), id |-> Null, skills |-> List(<<T("go")>>),
          languages |-> List(<<Dict([name |-> T("arabic"), level |-> Str(<<"mother", " ", "tongue">>)]),
                               Dict([proficiency |-> Num(4)])>>)])

Wrapper ==
    Dict([results |-> List(<<Dan, Dict([profile |-> Eve]), Literal(Alice), T("noise"), Num(2)>>)])

ResultWrapper == Dict([result |-> Literal(Eve), url |-> T("u-top"), id |-> T("top")])

ListFile == List(<<Dan, Literal(Bob), T("noise")>>)

\* a scenario: the folders of JSON files a caller can name (each a list of
\* files in glob order) and the aggregation mode the engine is built with
Scenarios ==
    { [folders |-> {<<File("alice", Alice), File("f2", Bob)>>, <<File("f3", AliceBare)>>}, mode |-> "sum_norm"],
      [folders |-> {<<File("alice", Alice), File("f2", Bob)>>, <<File("f3", AliceBare)>>}, mode |-> "sum"],
      [folders |-> {<<File("alice", Alice), File("f2", Bob)>>, <<File("f3", AliceBare)>>}, mode |-> "mean"],
      [folders |-> {<<File("f1", Carol)>>, <<File("f2", Bob), File("f1", Carol)>>}, mode |-> "sum_norm"],
      [folders |-> {<<File("f1", Wrapper)>>, <<File("f2", ResultWrapper)>>}, mode |-> "sum"],
      [folders |-> {<<BadFile("f1"), File("f2", Num(2)), File("f3", Eve), File("f4", List(<<>>))>>,
                    <<BadFile("f1"), File("f5", Dan), File("f2", Num(2))>>}, mode |-> "mean"],
      [folders |-> {<<File("f1", Literal(Alice)), File("f2", ListFile)>>,
                    <<File("f3", Literal(Alice)), File("f4", T("noise"))>>}, mode |-> "sum_norm"],
      [folders |-> {<<File("f1", Carol), File("f2", Wrapper)>>, <<File("f3", Bob)>>}, mode |-> "mean"] }

JobTexts ==
    { <<" ", "Python", " ", "backend", " ", "English", "<b>">>,
      <<"cobol", " ", "phd">> }

WeightArgs ==
    { <<>>,
      <<[skills |-> 10]>>,
      <<[experience |-> -10, skills |-> 20, education |-> 5, languages |-> 5]>>,
      <<[skills |-> 5, bonus |-> 5]>>,
      <<[skills |-> 5, languages |-> -5]>>,
      <<[k \in {} |-> 0]>> }

\* ---- the engine as a state machine ----
VARIABLES
    profiles,       \* CandidateScorer.profiles, in insertion order
    skills_idx,     \* the three SectionIndex objects
    exp_idx,
    edu_idx,
    exp_agg_mode,
    disk,           \* the folders of JSON files a caller can name
    adds,           \* add_profiles calls made on this engine
    ret,            \* the last call: its arguments and its outcome
    heap,           \* the CandidateScorer objects server.py has constructed
    SCORER,         \* the global of server.py: 0 for None, else an object of heap
    loads,          \* the load_profiles requests, each with its position
    scores          \* the score requests, each with its position

vars ==
    <<profiles, skills_idx, exp_idx, edu_idx, exp_agg_mode, disk, adds, ret,
      heap, SCORER, loads, scores>>

\* the state of server.py
server == <<heap, SCORER, loads, scores>>

\* the engine driven directly
engine == <<profiles, skills_idx, exp_idx, edu_idx, exp_agg_mode, disk, adds, ret>>

\* a request that has not arrived
Idle == [pc |-> "idle"]

Self ==
    [profiles |-> profiles, skills_idx |-> skills_idx, exp_idx |-> exp_idx,
     edu_idx |-> edu_idx, exp_agg_mode |-> exp_agg_mode]

\* CandidateScorer.__init__
Init ==
    /\ profiles = <<>>
    /\ skills_idx = NewIndex
    /\ exp_idx = NewIndex
    /\ edu_idx = NewIndex
    /\ \E sc \in Scenarios : exp_agg_mode = sc.mode /\ disk = sc.folders
    /\ adds = 0
    /\ ret = [op |-> "init"]
    /\ heap = <<>>
    /\ SCORER = 0
    /\ loads = [t \in 1..MaxLoads |-> Idle]
    /\ scores = [t \in 1..MaxScores |-> Idle]

AddProfiles(json_paths, fail) ==
    /\ adds < MaxAdds
    /\ \E r \in {add_profiles(Self, json_paths, fail)} :
           /\ profiles' = r.self.profiles
           /\ skills_idx' = r.self.skills_idx
           /\ exp_idx' = r.self.exp_idx
           /\ edu_idx' = r.self.edu_idx
           /\ ret' = [op |-> "add_profiles", json_paths |-> json_paths, first |-> adds = 0,
                      raised |-> r.raised, error |-> r.error, calls |-> r.calls,
                      failed |-> fail # 0]
    /\ adds' = adds + 1
    /\ UNCHANGED <<exp_agg_mode, disk>>
    /\ UNCHANGED server

Score_SortsStore(job_text, weights, top_k_search, fail) ==
    /\ \E r \in {score(Self, job_text, weights, top_k_search, fail)} :
           ret' = IF r.raised
                  THEN [op |-> "score", raised |-> TRUE, error |-> r.error, calls |-> r.calls,
                        weights |-> weights, failed |-> fail # 0]
                  ELSE [op |-> "score", raised |-> FALSE, job_text |-> job_text,
                        weights |-> weights, top_k_search |-> top_k_search,
                        value |-> r.value, calls |-> r.calls, failed |-> fail # 0]
    /\ profiles' = [i \in 1..Len(profiles) |-> profiles[Len(profiles) + 1 - i]]
    /\ UNCHANGED <<skills_idx, exp_idx, edu_idx, exp_agg_mode, disk, adds>>
    /\ UNCHANGED server

\* CandidateScorer.score called on the engine: only the caller sees a result
Score(job_text, weights, top_k_search, fail) ==
    /\ \E r \in {score(Self, job_text, weights, top_k_search, fail)} :
           ret' = IF r.raised
                  THEN [op |-> "score", raised |-> TRUE, error |-> r.error, calls |-> r.calls,
                        weights |-> weights, failed |-> fail # 0]
                  ELSE [op |-> "score", raised |-> FALSE, job_text |-> job_text,
                        weights |-> weights, top_k_search |-> top_k_search,
                        value |-> r.value, calls |-> r.calls, failed |-> fail # 0]
    /\ UNCHANGED <<profiles, skills_idx, exp_idx, edu_idx, exp_agg_mode, disk, adds>>
    /\ UNCHANGED server

Next ==
    \/ \E json_paths \in disk, fail \in 0..6 : AddProfiles(json_paths, fail)
    \/ \E job_text \in JobTexts, weights \in WeightArgs, top_k_search \in 1..MaxTopK, fail \in 0..1 :
           Score(job_text, weights, top_k_search, fail)

Spec == Init /\ [][Next]_vars

\* ---- server.py: the endpoints on the global SCORER ----
\* The endpoints are plain functions, which the framework runs on the threads
\* of a pool; a request is a thread whose steps interleave with the steps of
\* the other requests at each read or write of SCORER and of the object it
\* names.

\* ScoreRequest.top_k_search: le=5000
TopKMax == 5000

\* LoadProfilesRequest._check_agg: allowed
AggModes == {"sum", "mean", "sum_norm"}

\* the folders that exist, each with its *.json files in glob order
FileSystem ==
    [good |-> <<File("alice", Alice), File("f2", Bob)>>,
     edu |-> <<File("f1", Carol)>>,
     empty |-> <<>>]

\* os.path.isdir(json_folder)
IsDir(json_folder) == json_folder \in DOMAIN FileSystem

\* glob.glob(os.path.join(json_folder, "*.json"))
GlobJson(json_folder) == IF IsDir(json_folder) THEN FileSystem[json_folder] ELSE <<>>

\* bodies of load_profiles requests
LoadRequests ==
    { [json_folder |-> "good", exp_agg |-> "sum_norm", reset |-> TRUE],
      [json_folder |-> "good", exp_agg |-> "mean", reset |-> FALSE],
      [json_folder |-> "edu", exp_agg |-> "sum_norm", reset |-> FALSE],
      [json_folder |-> "good", exp_agg |-> "bogus", reset |-> TRUE],
      [json_folder |-> "missing", exp_agg |-> "sum_norm", reset |-> TRUE],
      [json_folder |-> "empty", exp_agg |-> "sum_norm", reset |-> FALSE] }

\* bodies of score requests; weights is <<>> for null
ScoreRequests ==
    { [job_text |-> <<"cobol", " ", "phd">>, weights |-> <<>>, top_k_search |-> 1],
      [job_text |-> <<"cobol", " ", "phd">>, weights |-> <<[skills |-> 10, bonus |-> 5]>>, top_k_search |-> 2],
      [job_text |-> <<"cobol", " ", "phd">>, weights |-> <<[bonus |-> 5]>>, top_k_search |-> 1],
      [job_text |-> <<"cobol", " ", "phd">>, weights |-> <<[skills |-> 5, languages |-> -5]>>, top_k_search |-> 1],
      [job_text |-> <<"cobol", " ", "phd">>, weights |-> <<>>, top_k_search |-> 0],
      [job_text |-> <<"cobol", " ", "phd">>, weights |-> <<[skills |-> 10]>>, top_k_search |-> TopKMax + 1] }

LoadRejection_NoFolderCheck(req) ==
    IF req.exp_agg \notin AggModes THEN 422 ELSE 0

\* the status a load_profiles request is refused with, 0 when it is not:
\* 422 from the validator of exp_agg, 400 from the two folder checks
LoadRejection(req) ==
    IF req.exp_agg \notin AggModes THEN 422
    ELSE IF ~IsDir(req.json_folder) THEN 400
    ELSE IF GlobJson(req.json_folder) = <<>> THEN 400
    ELSE 0

\* the status a score request is refused with by the field constraints
ScoreRejection(req) ==
    IF req.top_k_search < 1 \/ req.top_k_search > TopKMax THEN 422 ELSE 0

\* ScoreRequest._normalize_weights: only the four known keys are kept, and a
\* mapping without any of them becomes None
_normalize_weights(v) ==
    IF v = <<>> THEN <<>>
    ELSE LET known == DOMAIN v[1] \cap {"experience", "skills", "education", "languages"}
         IN  IF known = {} THEN <<>> ELSE <<[k \in known |-> v[1][k]]>>

\* CandidateScorer(exp_agg_mode=exp_agg)
NewScorer(exp_agg) ==
    [profiles |-> <<>>, skills_idx |-> NewIndex, exp_idx |-> NewIndex, edu_idx |-> NewIndex,
     exp_agg_mode |-> exp_agg]

Recreates_OnlyOnReset(req) == req.reset \/ SCORER = 0

\* lines 93-98: a new object replaces SCORER
Recreates(req) ==
    req.reset \/ SCORER = 0 \/ heap[SCORER].exp_agg_mode # req.exp_agg

HttpInit ==
    /\ profiles = <<>>
    /\ skills_idx = NewIndex
    /\ exp_idx = NewIndex
    /\ edu_idx = NewIndex
    /\ exp_agg_mode = "sum_norm"
    /\ disk = {}
    /\ adds = 0
    /\ ret = [op |-> "init"]
    /\ heap = <<>>
    /\ SCORER = 0
    /\ loads = [t \in 1..MaxLoads |-> Idle]
    /\ scores = [t \in 1..MaxScores |-> Idle]

\* load_profiles up to line 98: validation of the body, the folder checks and
\* the replacement of SCORER; the requests are numbered as they arrive. The
\* request remembers what it found: alone, no other load_profiles request
\* was running, and prev, the store keys and the mode of the scorer it met
LoadBegin(t, req) ==
    /\ loads[t].pc = "idle"
    /\ \A u \in 1..(t - 1) : loads[u].pc # "idle"
    /\ IF LoadRejection(req) # 0
       THEN /\ loads' = [loads EXCEPT ![t] = [pc |-> "done", req |-> req, status |-> LoadRejection(req)]]
            /\ UNCHANGED <<heap, SCORER>>
       ELSE /\ loads' = [loads EXCEPT ![t] =
                   [pc |-> "call", req |-> req,
                    alone |-> \A u \in 1..MaxLoads \ {t} : loads[u].pc \in {"idle", "done"},
                    prev |-> IF SCORER = 0 THEN <<>>
                             ELSE <<[keys |-> StoreKeys(heap[SCORER].profiles),
                                     exp_agg_mode |-> heap[SCORER].exp_agg_mode]>>]]
            /\ IF Recreates(req)
               THEN heap' = Append(heap, NewScorer(req.exp_agg)) /\ SCORER' = Len(heap) + 1
               ELSE UNCHANGED <<heap, SCORER>>
    /\ UNCHANGED scores
    /\ UNCHANGED engine

\* line 100, SCORER.add_profiles(files), up to the end of its first loop: the
\* object SCORER names now has the profiles in its store
LoadCollect(t) ==
    /\ loads[t].pc = "call"
    /\ \E a1 \in {FirstLoop(NewLists(heap[SCORER].profiles), GlobJson(loads[t].req.json_folder))} :
           /\ heap' = [heap EXCEPT ![SCORER].profiles = a1.profiles]
           /\ loads' = [loads EXCEPT ![t] =
                  [pc |-> "embed", req |-> loads[t].req, obj |-> SCORER, lists |-> a1,
                   alone |-> loads[t].alone, prev |-> loads[t].prev]]
    /\ UNCHANGED <<SCORER, scores>>
    /\ UNCHANGED engine

\* the rest of add_profiles on that object (the embed-and-add blocks and the
\* block under "if edu_texts:") and lines 101-106, which read SCORER again
LoadEmbed(t) ==
    /\ loads[t].pc = "embed"
    /\ \E r \in {EducationBlock(
                     EmbedLists([self |-> heap[loads[t].obj], raised |-> FALSE, error |-> "",
                                 calls |-> 0],
                                loads[t].lists, 0, 0),
                     loads[t].lists, GlobJson(loads[t].req.json_folder), 0)} :
           /\ heap' = [heap EXCEPT ![loads[t].obj] = r.self]
           /\ loads' = [loads EXCEPT ![t] =
                  IF r.raised
                  THEN [pc |-> "done", req |-> loads[t].req, status |-> 500,
                        alone |-> loads[t].alone, prev |-> loads[t].prev]
                  ELSE [pc |-> "done", req |-> loads[t].req, status |-> 200,
                        alone |-> loads[t].alone, prev |-> loads[t].prev,
                        indexed_profiles |-> IF SCORER = loads[t].obj THEN Len(r.self.profiles)
                                             ELSE Len(heap[SCORER].profiles),
                        files_added |-> Len(GlobJson(loads[t].req.json_folder)),
                        exp_agg_mode |-> heap[SCORER].exp_agg_mode]]
    /\ UNCHANGED <<SCORER, scores>>
    /\ UNCHANGED engine

ScoreBegin_NoStoreCheck(t, req) ==
    /\ scores[t].pc = "idle"
    /\ scores' = [scores EXCEPT ![t] =
           IF ScoreRejection(req) # 0
           THEN [pc |-> "done", req |-> req, status |-> ScoreRejection(req)]
           ELSE IF SCORER = 0
           THEN [pc |-> "done", req |-> req, status |-> 400]
           ELSE [pc |-> "call", req |-> req,
                 weights |-> IF _normalize_weights(req.weights) = <<>> THEN <<DEFAULT_WEIGHTS>>
                             ELSE _normalize_weights(req.weights)]]
    /\ UNCHANGED <<heap, SCORER, loads>>
    /\ UNCHANGED engine

\* score up to line 115: validation of the body and the check of SCORER
ScoreBegin(t, req) ==
    /\ scores[t].pc = "idle"
    /\ scores' = [scores EXCEPT ![t] =
           IF ScoreRejection(req) # 0
           THEN [pc |-> "done", req |-> req, status |-> ScoreRejection(req)]
           ELSE IF SCORER = 0 \/ Len(heap[SCORER].profiles) = 0
           THEN [pc |-> "done", req |-> req, status |-> 400]
           ELSE [pc |-> "call", req |-> req,
                 weights |-> IF _normalize_weights(req.weights) = <<>> THEN <<DEFAULT_WEIGHTS>>
                             ELSE _normalize_weights(req.weights)]]
    /\ UNCHANGED <<heap, SCORER, loads>>
    /\ UNCHANGED engine

\* lines 116-122: SCORER.score on the object SCORER names now; loading holds
\* the load_profiles requests that have stored profiles in that object and
\* not yet added their vectors
ScoreCall(t) ==
    /\ scores[t].pc = "call"
    /\ \E r \in {score(heap[SCORER], scores[t].req.job_text, scores[t].weights,
                       scores[t].req.top_k_search, 0)} :
           scores' = [scores EXCEPT ![t] =
               IF r.raised
               THEN [pc |-> "done", req |-> scores[t].req, status |-> 500, obj |-> SCORER]
               ELSE [pc |-> "done", req |-> scores[t].req, status |-> 200, obj |-> SCORER,
                     count |-> Len(r.value), results |-> r.value,
                     loading |-> {u \in 1..MaxLoads : loads[u].pc = "embed" /\ loads[u].obj = SCORER}]]
    /\ UNCHANGED <<heap, SCORER, loads>>
    /\ UNCHANGED engine

\* the response of the health endpoint; exp_agg_mode is "None" without a
\* scorer
health ==
    [status |-> "ok",
     indexed_profiles |-> IF SCORER = 0 THEN 0 ELSE Len(heap[SCORER].profiles),
     exp_agg_mode |-> IF SCORER = 0 THEN "None" ELSE heap[SCORER].exp_agg_mode]

\* a health request: the caller sees the response, nothing changes
Health ==
    /\ ret' = [op |-> "health", value |-> health]
    /\ UNCHANGED <<profiles, skills_idx, exp_idx, edu_idx, exp_agg_mode, disk, adds>>
    /\ UNCHANGED server

HttpNext ==
    \/ Health
    \/ \E t \in 1..MaxLoads, req \in LoadRequests : LoadBegin(t, req)
    \/ \E t \in 1..MaxLoads : LoadCollect(t)
    \/ \E t \in 1..MaxLoads : LoadEmbed(t)
    \/ \E t \in 1..MaxScores, req \in ScoreRequests : ScoreBegin(t, req)
    \/ \E t \in 1..MaxScores : ScoreCall(t)

HttpSpec == HttpInit /\ [][HttpNext]_vars

\* ---- properties ----
Components == {"experience", "skills", "education", "languages"}

\* the last call was a score call that returned a list
Scored == ret.op = "score" /\ ~ret.raised

\* the last call was an add_profiles call that returned
Added == ret.op = "add_profiles" /\ ~ret.raised

\* the weights mapping of the last score call and the sum of the weights of
\* the four components
GivenWeights == IF ret.weights = <<>> THEN DEFAULT_WEIGHTS ELSE ret.weights[1]

KnownSum(w) ==
    GetOr0(w, "experience") + GetOr0(w, "skills") + GetOr0(w, "education") + GetOr0(w, "languages")

\* C1: every breakdown component of every returned result lies in [0, 1],
\* whatever the aggregation mode and top_k_search.
C1_ComponentsInRange ==
    Scored => \A i \in 1..Len(ret.value) : \A k \in Components :
                  ret.value[i].breakdown[k] >= 0 /\ ret.value[i].breakdown[k] <= SCALE

\* a ranking under "sum" in which the clamp at 1 decided a component
C1_Witness ==
    /\ Scored /\ exp_agg_mode = "sum" /\ Len(ret.value) >= 2
    /\ \E i \in 1..Len(ret.value) : ret.value[i].breakdown.experience = SCALE
    /\ \E i \in 1..Len(ret.value) : ret.value[i].breakdown.skills = SCALE

\* C2: the total of every returned result lies in [0, 1] for every weights
\* mapping the call accepts.
C2_TotalInRange ==
    Scored => \A i \in 1..Len(ret.value) :
                  ret.value[i].score.num >= 0
                  /\ ret.value[i].score.num <= ret.value[i].score.den * SCALE

\* C3: with weights over the four components and a positive sum, the total is
\* the sum of (w_k / sum) * breakdown[k]; with {skills: 1.0} it is the skills
\* component.
C3_TotalIsWeightedSum ==
    (Scored /\ ret.weights # <<>> /\ DOMAIN GivenWeights \subseteq Components
        /\ KnownSum(GivenWeights) > 0)
    => \A i \in 1..Len(ret.value) :
           LET r == ret.value[i]
               w == GivenWeights
           IN  /\ r.score.den = KnownSum(w)
               /\ r.score.num = w.skills * r.breakdown.skills
                                + GetOr0(w, "experience") * r.breakdown.experience
                                + GetOr0(w, "education") * r.breakdown.education
                                + GetOr0(w, "languages") * r.breakdown.languages
               /\ (DOMAIN w = {"skills"} => r.score.num = r.score.den * r.breakdown.skills)

\* a ranking under four weights in which a candidate has a nonzero languages
\* and a nonzero skills component
C3_Witness ==
    /\ Scored /\ ret.weights # <<>> /\ DOMAIN GivenWeights = Components
    /\ \E i \in 1..Len(ret.value) :
           ret.value[i].breakdown.languages > 0 /\ ret.value[i].breakdown.skills > 0

\* C4: the returned list holds exactly one result for each id of the
\* Candidate Store.
C4_OneResultPerCandidate ==
    Scored =>
        /\ \A i \in 1..Len(ret.value) : ret.value[i].candidate_id \in StoreKeys(profiles)
        /\ \A cid \in StoreKeys(profiles) :
               Cardinality({i \in 1..Len(ret.value) : ret.value[i].candidate_id = cid}) = 1

\* a ranking with top_k_search = 1, after an id was ingested twice, that holds
\* a candidate without any hit
C4_Witness ==
    /\ Scored /\ ret.top_k_search = 1 /\ adds = 2 /\ Len(profiles) >= 2
    /\ Len(skills_idx.vectors) > Len(profiles)
    /\ \E i \in 1..Len(ret.value) : \A k \in Components \ {"languages"} :
           ret.value[i].breakdown[k] = 0

\* C5: the returned list is in non-increasing order of total, and candidates
\* with equal totals are in the insertion order of the Candidate Store.
C5_SortedStable ==
    Scored => \A i, j \in 1..Len(ret.value) :
                  i < j =>
                      /\ ret.value[i].score.num >= ret.value[j].score.num
                      /\ (ret.value[i].score.num = ret.value[j].score.num
                          => StoreFind(profiles, ret.value[i].candidate_id, 1)
                             < StoreFind(profiles, ret.value[j].candidate_id, 1))

\* a ranking after a re-ingestion in which two candidates tie and a third
\* total differs
C5_Witness ==
    /\ Scored /\ adds = 2 /\ Len(ret.value) >= 3
    /\ \E i, j \in 1..Len(ret.value) :
           i < j /\ ret.value[i].score.num = ret.value[j].score.num
    /\ \E i, j \in 1..Len(ret.value) : ret.value[i].score.num > ret.value[j].score.num

IndexOk(idx) ==
    /\ Len(idx.vectors) = idx.next_id
    /\ Cardinality(DOMAIN idx.id_to_meta) = idx.next_id
    /\ DOMAIN idx.id_to_meta = 0..(idx.next_id - 1)
    /\ \A i \in 1..Len(idx.vectors) : idx.vectors[i].id = i - 1

\* C6: in each section index the number of stored vectors, len(id_to_meta) and
\* next_id are equal, and the ids are 0..next_id-1 in insertion order.
C6_IndexIdsContiguous == IndexOk(skills_idx) /\ IndexOk(exp_idx) /\ IndexOk(edu_idx)

\* two add_profiles calls have each added vectors to the experience index
C6_Witness ==
    /\ adds = 2 /\ exp_idx.next_id >= 4 /\ skills_idx.next_id >= 2
    /\ \E i \in 1..Len(exp_idx.vectors) : i > 2 /\ exp_idx.id_to_meta[i - 1].item_idx = 0

\* the entries of a section index that carry the candidate id cid
EntriesOf(idx, cid) == {k \in DOMAIN idx.id_to_meta : idx.id_to_meta[k].candidate_id = cid}

\* C7: after one add_profiles call on a fresh engine every candidate has at
\* most one skills entry, at most one education entry, and one experience
\* entry per flattened experience item, numbered by the item's position.
C7_OneBlockPerCandidate ==
    (Added /\ ret.first) =>
        \A i \in 1..Len(profiles) :
            LET cid == profiles[i].cid
                p == profiles[i].profile
                n == IF IsDict(p) THEN Len(ExperienceItemsOf(p)) ELSE 0
            IN  /\ Cardinality(EntriesOf(skills_idx, cid)) <= 1
                /\ Cardinality(EntriesOf(edu_idx, cid)) <= 1
                /\ Cardinality(EntriesOf(exp_idx, cid)) = n
                /\ {exp_idx.id_to_meta[k].item_idx : k \in EntriesOf(exp_idx, cid)} = 0..(n - 1)

\* the section texts of a stored profile; a stored value that is not a dict
\* has none
StoredSkillsText(p) == IF IsDict(p) THEN SkillsTextOf(p) ELSE <<>>
StoredExperience(p) == IF IsDict(p) THEN ExperienceItemsOf(p) ELSE <<>>
StoredEducation(p) == IF IsDict(p) THEN EducationTextOf(p) ELSE <<>>
StoredLanguages(p) == parse_languages(_get_field(p, <<"languages", "language", "langs">>, List(<<>>)))

\* C8: a candidate whose stored profile has no text for a section, or no
\* languages, has a component of exactly 0 there.
C8_AbsenceScoresZero ==
    Scored =>
        \A i \in 1..Len(ret.value) :
            LET r == ret.value[i]
                p == profiles[StoreFind(profiles, r.candidate_id, 1)].profile
            IN  /\ StoredSkillsText(p) = <<>> => r.breakdown.skills = 0
                /\ StoredExperience(p) = <<>> => r.breakdown.experience = 0
                /\ StoredEducation(p) = <<>> => r.breakdown.education = 0
                /\ StoredLanguages(p) = <<>> => r.breakdown.languages = 0

IdKeys ==
    <<"id", "candidate_id", "profile_id", "uid", "user_id",
      "url", "linkedin", "linkedin_url", "profile_url">>

\* the value of the first id field that holds a non-empty value, else the
\* file's stem
RECURSIVE FirstPresent(_, _, _)
FirstPresent(profile, keys, path) ==
    IF keys = <<>> THEN Stem(path)
    ELSE IF Truthy(Get(profile.d, Head(keys))) THEN StrText(profile.d[Head(keys)])
    ELSE FirstPresent(profile, Tail(keys), path)

FirstPresentId(profile, path) == FirstPresent(profile, IdKeys, path)

\* the profile dicts unwrapped from the readable files of a batch, each with
\* the path of its file
RECURSIVE Unwrapped(_)
Unwrapped(files) ==
    IF files = <<>> THEN <<>>
    ELSE LET f == Head(files)
             ps == IF f.ok THEN ProfileBlobsOf(f.raw) ELSE <<>>
         IN  [i \in 1..Len(ps) |-> [path |-> f.path, profile |-> ps[i]]] \o Unwrapped(Tail(files))

\* C9: a profile is stored under the value of the first present field in the
\* order id, candidate_id, profile_id, uid, user_id, url, linkedin,
\* linkedin_url, profile_url, else under the file name without extension.
C9_IdPrecedence ==
    Added =>
        \A i \in 1..Len(Unwrapped(ret.json_paths)) :
            LET u == Unwrapped(ret.json_paths)[i]
            IN  /\ _extract_candidate_id(u.profile, u.path) = FirstPresentId(u.profile, u.path)
                /\ FirstPresentId(u.profile, u.path) \in StoreKeys(profiles)

\* C10: after add_profiles on a fresh engine the Candidate Store has exactly
\* the resolved ids of the unwrapped profiles as keys, each holding an
\* unwrapped profile that resolves to it.
C10_StoreHoldsUnwrappedProfiles ==
    (Added /\ ret.first) =>
        LET us == Unwrapped(ret.json_paths)
        IN  /\ StoreKeys(profiles) = {_extract_candidate_id(us[i].profile, us[i].path) : i \in 1..Len(us)}
            /\ \A j \in 1..Len(profiles) :
                   \E i \in 1..Len(us) :
                       /\ profiles[j].profile = us[i].profile
                       /\ profiles[j].cid = _extract_candidate_id(us[i].profile, us[i].path)

Skipped(f) == ~f.ok \/ ProfileBlobsOf(f.raw) = <<>>

\* the files the vectors of an index come from
OriginsOf(idx) == {idx.id_to_meta[k].origin : k \in DOMAIN idx.id_to_meta}

\* C13: add_profiles on a fresh engine over a batch with unparseable files or
\* files without an extractable profile does not raise (the embedder working),
\* stores nothing and indexes nothing for such a file, and ingests the
\* profiles of every other file.
C13_SkippedFilesHarmless ==
    (/\ ret.op = "add_profiles" /\ ret.first /\ ~ret.failed
     /\ \E i \in 1..Len(ret.json_paths) : Skipped(ret.json_paths[i])) =>
        /\ ~ret.raised
        /\ \A i \in 1..Len(ret.json_paths) :
               Skipped(ret.json_paths[i]) =>
                   /\ Stem(ret.json_paths[i].path) \notin StoreKeys(profiles)
                   /\ ret.json_paths[i].path \notin
                          OriginsOf(skills_idx) \cup OriginsOf(exp_idx) \cup OriginsOf(edu_idx)
        /\ \A i \in 1..Len(Unwrapped(ret.json_paths)) :
               _extract_candidate_id(Unwrapped(ret.json_paths)[i].profile,
                                     Unwrapped(ret.json_paths)[i].path) \in StoreKeys(profiles)

\* the values of the weights mapping given to the last score call sum to zero
ZeroSumWeights == ret.weights # <<>> /\ SumOver(ret.weights[1], DOMAIN ret.weights[1]) = 0

\* C14: a score call returns a list with one result for every candidate of the
\* Candidate Store or raises; it raises when the embedder fails on the job
\* text and when the values of the weights mapping sum to zero.
C14_ListOrError ==
    ret.op = "score" =>
        /\ ret.raised \/ (/\ Len(ret.value) = Len(profiles)
                          /\ {ret.value[i].candidate_id : i \in 1..Len(ret.value)} = StoreKeys(profiles))
        /\ ret.failed => ret.raised
        /\ ZeroSumWeights => ret.raised

\* the weights of the last score call (DEFAULT_WEIGHTS when None) have a
\* positive sum
PositiveSumWeights == ret.weights = <<>> \/ SumOver(ret.weights[1], DOMAIN ret.weights[1]) > 0

\* C16: score on a freshly constructed engine, nothing ingested, returns the
\* empty list and does not raise, for every job text, every weights mapping
\* with a positive sum and every top_k_search (the embedder working).
C16_EmptyEngineScoresEmpty ==
    (ret.op = "score" /\ adds = 0 /\ PositiveSumWeights /\ ~ret.failed) =>
        ~ret.raised /\ ret.value = <<>>

\* score with an explicit mapping and three empty searches on a fresh engine
C16_Witness ==
    /\ ret.op = "score" /\ adds = 0 /\ profiles = <<>> /\ skills_idx = NewIndex
    /\ ~ret.raised /\ ret.weights # <<>> /\ PositiveSumWeights
    /\ ret.calls = 3 /\ ret.top_k_search = MaxTopK /\ ret.value = <<>>

\* batches of embeddings with their metas given to SectionIndex.add
ProbeMeta(i) == [candidate_id |-> <<"probe">>, section |-> "skills", excerpt |-> <<>>, origin |-> i]

ProbeBatches ==
    { [embeddings |-> <<>>, metas |-> <<>>],
      [embeddings |-> <<0>>, metas |-> <<ProbeMeta(1)>>],
      [embeddings |-> <<3, 3>>, metas |-> <<ProbeMeta(1), ProbeMeta(2)>>] }

\* what add(embeddings, metas) on idx returns and leaves, against idx
AddAppends(idx, embeddings, metas, new) ==
    LET n == Len(embeddings)
    IN  /\ IndexAddReturn(embeddings) = n
        /\ Len(new.vectors) = Len(idx.vectors) + n
        /\ new.next_id = idx.next_id + n
        /\ \A i \in 1..n :
               /\ new.vectors[Len(idx.vectors) + i] = [id |-> idx.next_id + i - 1, vec |-> embeddings[i]]
               /\ new.id_to_meta[idx.next_id + i - 1] = metas[i]
        /\ \A k \in DOMAIN idx.id_to_meta :
               k \in DOMAIN new.id_to_meta /\ new.id_to_meta[k] = idx.id_to_meta[k]
        /\ n = 0 => new = idx

\* an index after some adds, against the index before them
Grown(idx, new) ==
    /\ Len(new.vectors) >= Len(idx.vectors)
    /\ new.next_id >= idx.next_id
    /\ SubSeq(new.vectors, 1, Len(idx.vectors)) = idx.vectors
    /\ \A i, j \in 1..Len(new.vectors) : i # j => new.vectors[i].id # new.vectors[j].id
    /\ \A k \in DOMAIN idx.id_to_meta :
           k \in DOMAIN new.id_to_meta /\ new.id_to_meta[k] = idx.id_to_meta[k]

\* C17: SectionIndex.add of n vectors returns n, appends them under the ids
\* next_id .. next_id+n-1, advances the count and next_id by n and keeps every
\* existing id_to_meta entry; add of nothing returns 0 and changes nothing;
\* over any step of the engine no index shrinks and no id is given twice.
C17_AddAppendsOnly ==
    [][/\ \A idx \in {skills_idx, exp_idx, edu_idx} : \A b \in ProbeBatches :
              AddAppends(idx, b.embeddings, b.metas, IndexAdd(idx, b.embeddings, b.metas))
       /\ Grown(skills_idx, skills_idx') /\ Grown(exp_idx, exp_idx') /\ Grown(edu_idx, edu_idx')]_vars

\* a second add_profiles call has added to indices that already held vectors
C17_Witness ==
    /\ Added /\ ~ret.first /\ ret.calls >= 2
    /\ skills_idx.next_id >= 3 /\ exp_idx.next_id >= 3
    /\ skills_idx.id_to_meta[0].candidate_id = skills_idx.id_to_meta[skills_idx.next_id - 1].candidate_id

\* the directions a query embedding can have
Directions == 0..6

\* what search(q_emb, top_k) returns on idx
SearchOk(idx, q_emb, top_k, results) ==
    /\ Len(results) = Min(top_k, Len(idx.vectors))
    /\ \A i \in 1..(Len(results) - 1) : results[i].score >= results[i + 1].score
    /\ \A i \in 1..Len(results) :
           \E v \in 1..Len(idx.vectors) :
               /\ idx.vectors[v].id >= 0
               /\ idx.vectors[v].id \in DOMAIN idx.id_to_meta
               /\ results[i].meta = idx.id_to_meta[idx.vectors[v].id]
               /\ results[i].score = InnerProduct(idx.vectors[v].vec, q_emb)
    /\ \A v \in 1..Len(idx.vectors) :
           InnerProduct(idx.vectors[v].vec, q_emb) <= results[1].score
    /\ Len(idx.vectors) = 0 => results = <<>>

\* C18: SectionIndex.search(q, top_k) returns min(top_k, stored count)
\* results in non-increasing order of similarity, each with the similarity and
\* the metadata of a vector that was added; on an empty index it returns [].
C18_SearchReturnsStored ==
    \A idx \in {skills_idx, exp_idx, edu_idx} : \A q_emb \in Directions : \A top_k \in 1..MaxTopK :
        SearchOk(idx, q_emb, top_k, IndexSearch(idx, q_emb, top_k))

\* a score call searched with top_k_search above the count of the skills index
C18_Witness ==
    /\ Scored /\ ret.top_k_search = MaxTopK
    /\ Len(skills_idx.vectors) = 1 /\ Len(skills_idx.vectors) < MaxTopK
    /\ edu_idx = NewIndex
    /\ \E i \in 1..Len(ret.value) : ret.value[i].breakdown.skills > 0

\* the profile the Candidate Store holds under cid
ProfileOf(cid) == profiles[CHOOSE j \in 1..Len(profiles) : profiles[j].cid = cid].profile

\* the credit of one language entry in quarters of a level: the level when the
\* name occurs in the text jt, half of it otherwise
SubstringCredit(l, jt) ==
    IF Contains(jt, LowerText(l.language)) THEN 2 * l.level ELSE l.level

\* the same, an entry without a name never occurring
NamedCredit(l, jt) ==
    IF l.language # <<>> /\ Contains(jt, LowerText(l.language)) THEN 2 * l.level ELSE l.level

\* min(1, max(0, raw / (2 * n))) for credits in quarters of a level
LanguagesOf(credits) ==
    IF credits = <<>> THEN 0
    ELSE Min(SCALE, Max(0, (SCALE * SumSeq(credits)) \div (8 * Len(credits))))

\* C19 as stated: the languages component of a candidate with n >= 1 parsed
\* entries is min(1, max(0, sum / (2 * n))), an entry counting its level when
\* its lower-cased name is a substring of the lower-cased job text and half
\* its level otherwise; it is 0 for a candidate without parsed languages.
C19_LanguagesBySubstring ==
    Scored =>
        \A i \in 1..Len(ret.value) :
            LET langs == StoredLanguages(ProfileOf(ret.value[i].candidate_id))
            IN  ret.value[i].breakdown.languages =
                    LanguagesOf([k \in 1..Len(langs) |-> SubstringCredit(langs[k], LowerText(ret.job_text))])

\* C19 amended: an entry counts its full level only when its name is not
\* empty and occurs in the normalized, lower-cased job text; every other
\* entry, one without a name included, counts half its level.
C19_LanguagesByNamedSubstring ==
    Scored =>
        \A i \in 1..Len(ret.value) :
            LET langs == StoredLanguages(ProfileOf(ret.value[i].candidate_id))
            IN  ret.value[i].breakdown.languages =
                    LanguagesOf([k \in 1..Len(langs) |->
                                    NamedCredit(langs[k], LowerText(normalize_text(ret.job_text)))])

\* one ranking with {English, Native} at 1.0 against a job text that names
\* English, and a candidate with an entry without a name at 0.5
C19_Witness ==
    /\ Scored /\ Contains(LowerText(ret.job_text), <<"english">>)
    /\ \E i \in 1..Len(ret.value) :
           /\ StoredLanguages(ProfileOf(ret.value[i].candidate_id)) = <<[language |-> <<"English">>, level |-> 4]>>
           /\ ret.value[i].breakdown.languages = SCALE
    /\ \E i \in 1..Len(ret.value) :
           /\ \E k \in 1..Len(StoredLanguages(ProfileOf(ret.value[i].candidate_id))) :
                  StoredLanguages(ProfileOf(ret.value[i].candidate_id))[k].language = <<>>
           /\ ret.value[i].breakdown.languages = SCALE \div 2

\* the proficiency table, in halves of a level; motherTongue tells whether
\* the table also has "mother tongue"
TableLevel(s, motherTongue) ==
    IF s \in {<<"native">>, <<"fluent">>, <<"advanced">>} THEN 4
    ELSE IF motherTongue /\ s = <<"mother", " ", "tongue">> THEN 4
    ELSE IF s = <<"intermediate">> THEN 2
    ELSE IF s = <<"basic">> THEN 0
    ELSE 2

\* the level of an entry whose level value is v: a number is clamped to
\* [0, 2], a text goes through the table
LevelOfValue(v, motherTongue) ==
    IF FloatOk(v) THEN Max(0, Min(4, FloatOf(v)))
    ELSE TableLevel(LowerText(StrText(v)), motherTongue)

\* the level of a list item: a dict carries it in level/proficiency (0 when
\* absent), a string after the first ":" or "-" (1.0 when absent)
LevelOfItem(it, motherTongue) ==
    IF it.kind = "dict"
    THEN LevelOfValue(_get_field(it, <<"level", "proficiency">>, Num(0)), motherTongue)
    ELSE IF Len(SplitOnce(it.s, {":", "-"})) > 1
    THEN LevelOfValue(Str(Strip(SplitOnce(it.s, {":", "-"})[2])), FALSE)
    ELSE 2

\* the levels of the entries of a languages field, in order
LevelsOf(langs_field, motherTongue) ==
    IF ~Truthy(langs_field) THEN <<>>
    ELSE IF langs_field.kind = "list"
    THEN LET its == SelectSeq(langs_field.items, LAMBDA it : it.kind \in {"dict", "str"})
         IN  [k \in 1..Len(its) |-> LevelOfItem(its[k], motherTongue)]
    ELSE IF langs_field.kind = "dict"
    THEN LET ks == KeySeq(DOMAIN langs_field.d)
         IN  [k \in 1..Len(ks) |-> LevelOfValue(langs_field.d[ks[k]], FALSE)]
    ELSE IF langs_field.kind = "str"
    THEN [k \in 1..Len(NonEmpty(StripAll(SplitAll(langs_field.s, {",", "|", ";"})))) |-> 2]
    ELSE <<>>

\* the languages fields of the stored profiles
LanguageFields ==
    {_get_field(profiles[j].profile, <<"languages", "language", "langs">>, List(<<>>)) :
         j \in 1..Len(profiles)}

ParsedLevels(langs_field) ==
    [k \in 1..Len(parse_languages(langs_field)) |-> parse_languages(langs_field)[k].level]

\* C20 as stated: for each shape of the languages field every entry of
\* parse_languages has a level in [0, 2]: a numeric level clamped, a keyword
\* of the table native, fluent, advanced = 2, intermediate = 1, basic = 0, and
\* 1.0 for every other text.
C20_LevelsByTable ==
    \A langs_field \in LanguageFields :
        /\ \A k \in 1..Len(ParsedLevels(langs_field)) : ParsedLevels(langs_field)[k] \in 0..4
        /\ ParsedLevels(langs_field) = LevelsOf(langs_field, FALSE)

\* C20 amended: the same, the table of the dict items of a list having one
\* more keyword, "mother tongue" = 2.
C20_LevelsByTableOfShape ==
    \A langs_field \in LanguageFields :
        /\ \A k \in 1..Len(ParsedLevels(langs_field)) : ParsedLevels(langs_field)[k] \in 0..4
        /\ ParsedLevels(langs_field) = LevelsOf(langs_field, TRUE)

\* the store holds a list of dicts with the level "mother tongue" and a list
\* of strings with a level above 2 and the level "basic"
C20_Witness ==
    /\ \A shape \in {"list", "dict", "str"} : \E langs_field \in LanguageFields : langs_field.kind = shape
    /\ \E langs_field \in LanguageFields :
           [language |-> <<"arabic">>, level |-> 4] \in
               {parse_languages(langs_field)[k] : k \in 1..Len(parse_languages(langs_field))}
    /\ \E langs_field \in LanguageFields :
           ParsedLevels(langs_field) = <<2, 4, 0>>

\* a load_profiles request between the replacement of SCORER and the return
\* of add_profiles
Mutating(t) == loads[t].pc \in {"call", "embed"}

\* a score request between its check of SCORER and the return of score
Scoring(t) == scores[t].pc = "call"

\* C11: while a load_profiles request replaces the scorer and runs
\* add_profiles, no other load_profiles request does so and no score request
\* is running; no score request reads a scorer whose store a load in progress
\* has filled and whose indices it has not.
C11_LoadExclusive ==
    /\ \A t \in 1..MaxLoads :
           Mutating(t) =>
               /\ \A u \in 1..MaxLoads : u # t => ~Mutating(u)
               /\ \A u \in 1..MaxScores : ~Scoring(u)
    /\ \A u \in 1..MaxScores :
           (scores[u].pc = "done" /\ scores[u].status = 200) => scores[u].loading = {}

\* a request that validation or the folder checks refuse
InvalidLoad(req) ==
    \/ req.exp_agg \notin {"sum", "mean", "sum_norm"}
    \/ req.json_folder \notin DOMAIN FileSystem
    \/ FileSystem[req.json_folder] = <<>>

InvalidScore(req) == ~(req.top_k_search >= 1 /\ req.top_k_search <= TopKMax)

\* C15: a load_profiles request with an unknown aggregation mode, a missing
\* folder or a folder without JSON files, and a score request with
\* top_k_search outside 1..5000, is answered with an error in its first step,
\* before add_profiles or score is called, and leaves SCORER and every scorer
\* object as they were.
C15_InvalidRejectedFirst ==
    [][/\ \A t \in 1..MaxLoads :
              (loads[t].pc = "idle" /\ loads'[t].pc # "idle" /\ InvalidLoad(loads'[t].req)) =>
                  /\ loads'[t].pc = "done"
                  /\ loads'[t].status = (IF loads'[t].req.exp_agg \in AggModes THEN 400 ELSE 422)
                  /\ UNCHANGED <<heap, SCORER>>
       /\ \A t \in 1..MaxScores :
              (scores[t].pc = "idle" /\ scores'[t].pc # "idle" /\ InvalidScore(scores'[t].req)) =>
                  /\ scores'[t].pc = "done"
                  /\ scores'[t].status = 422
                  /\ UNCHANGED <<heap, SCORER>>]_vars

\* a populated scorer, a refused load_profiles request of each kind and a
\* refused score request
C15_Witness ==
    /\ SCORER # 0 /\ heap # <<>>
    /\ Len(heap[SCORER].profiles) >= 2 /\ heap[SCORER].skills_idx.next_id >= 2
    /\ loads[1].pc = "done" /\ loads[1].status = 200
    /\ loads[2].pc = "done" /\ loads[2].status \in {400, 422} /\ InvalidLoad(loads[2].req)
    /\ scores[1].pc = "done" /\ scores[1].status = 422 /\ InvalidScore(scores[1].req)

\* the mapping w without the keys that name no component
KnownOnly(w) == [k \in DOMAIN w \cap Components |-> w[k]]

\* the total a returned list gives the candidate cid
TotalOf(value, cid) == value[CHOOSE i \in 1..Len(value) : value[i].candidate_id = cid].score

\* two totals are the same number
SameFraction(a, b) == a.num * b.den = b.num * a.den

\* C21: keys of the weights mapping other than the four components are
\* ignored: score with a mapping W and score with W restricted to the four
\* known keys return the same total for every candidate.
C21_UnknownKeysIgnored ==
    (Scored /\ ret.weights # <<>>) =>
        LET r == score(Self, ret.job_text, <<KnownOnly(ret.weights[1])>>, ret.top_k_search, 0)
        IN  /\ ~r.raised
            /\ \A i \in 1..Len(ret.value) :
                   SameFraction(ret.value[i].score, TotalOf(r.value, ret.value[i].candidate_id))

\* C22: ingesting the same single file with identical content a second time
\* leaves the Candidate Store as the first ingestion left it: the same ids,
\* each holding the profile stored the first time.
C22_ReingestionKeepsStore ==
    [][(/\ ret.op = "add_profiles" /\ ~ret.raised
        /\ ret'.op = "add_profiles" /\ ~ret'.raised
        /\ Len(ret.json_paths) = 1 /\ ret'.json_paths = ret.json_paths)
       => profiles' = profiles]_vars

\* one file holding one profile was ingested twice: the indices hold its
\* vectors twice, the Candidate Store its profile once
C22_Witness ==
    /\ Added /\ adds = 2 /\ Len(ret.json_paths) = 1 /\ Len(profiles) = 1
    /\ OriginsOf(skills_idx) = {ret.json_paths[1].path}
    /\ skills_idx.next_id = 4 /\ edu_idx.next_id = 4
    /\ profiles[1].profile = ret.json_paths[1].raw

\* C23: one score call invokes the embedder on the job text exactly once, and
\* one add_profiles call invokes it at most once per section, at most three
\* batched calls, whatever the number of profiles and text fragments.
C23_EmbedderCallsBatched ==
    /\ (ret.op = "score" /\ ~ret.raised) => ret.calls = 1
    /\ ret.op = "add_profiles" => ret.calls <= 3

\* C27: when the embedder fails during add_profiles the error reaches the
\* caller and the engine is left as it was before the call: the Candidate
\* Store and the three section indices are unchanged.
C27_FailedIngestionLeavesEngine ==
    [][(ret'.op = "add_profiles" /\ adds' = adds + 1 /\ ret'.error = "EmbedderError")
       => ret'.raised /\ UNCHANGED <<profiles, skills_idx, exp_idx, edu_idx>>]_vars

\* the candidate ids the metadata of a section index holds
MetaCids(idx) == {idx.id_to_meta[k].candidate_id : k \in DOMAIN idx.id_to_meta}

\* the candidate ids of the hits of a search of idx for the job text
HitsFor(idx, job_text, top_k) ==
    HitCids(IndexSearch(idx, Encode(normalize_text(job_text)), top_k))

\* C28: after any sequence of add_profiles calls every candidate_id in the
\* metadata of the skills, experience and education index is a key of the
\* Candidate Store, so every hit of a score call belongs to a candidate of
\* the returned ranking.
C28_MetaCidsInStore ==
    /\ \A idx \in {skills_idx, exp_idx, edu_idx} : MetaCids(idx) \subseteq StoreKeys(profiles)
    /\ Scored =>
           \A idx \in {skills_idx, exp_idx, edu_idx} :
               HitsFor(idx, ret.job_text, ret.top_k_search)
                   \subseteq {ret.value[i].candidate_id : i \in 1..Len(ret.value)}

\* two add_profiles calls have returned, the second re-ingesting an id, and
\* the three indices hold entries of three candidates
C28_Witness ==
    /\ Added /\ adds = 2 /\ Len(profiles) >= 3
    /\ Cardinality(MetaCids(skills_idx) \cup MetaCids(exp_idx) \cup MetaCids(edu_idx)) >= 3
    /\ edu_idx.next_id > 0 /\ exp_idx.next_id > 0
    /\ skills_idx.next_id > Cardinality(MetaCids(skills_idx))

\* ---- the aggregation and the weight normalisation on their own ----
MaxEntries == 3

\* similarities of matching entries: inner products of unit vectors
Similarities == {-SCALE, -1200, 0, 24, 600, 1200, 2078, SCALE + 1}

\* per_candidate_entries[cid]: the similarities of a candidate's matching
\* entries, in the order of the search results
EntryLists ==
    UNION {{s \in [1..n -> Similarities] : \A i \in 1..(n - 1) : s[i] >= s[i + 1]} :
               n \in 1..MaxEntries}

\* the same entries with one more matching entry of similarity x
OneMore(entries, x) ==
    SelectSeq(entries, LAMBDA v : v >= x) \o <<x>> \o SelectSeq(entries, LAMBDA v : v < x)

\* weights mappings, in tenths
ProbeWeights ==
    { DEFAULT_WEIGHTS,
      [skills |-> 10],
      [experience |-> -10, skills |-> 20, education |-> 5, languages |-> 5],
      [skills |-> 5, bonus |-> 5],
      [experience |-> -10, skills |-> 5],
      [skills |-> 5, languages |-> -5],
      [k \in {} |-> 0] }

norm_w_Epsilon(w) ==
    LET s == SumOver(w.vals, DOMAIN w.vals)
    IN  [vals |-> [k \in DOMAIN w.vals |-> Sign(s + w.den) * w.vals[k]], den |-> Abs(s + w.den)]

\* norm_w = {k: float(v)/s for k, v in weights.items()} with s the sum of the
\* values; a mapping is [vals, den], the weight of k being vals[k] / den
norm_w(w) ==
    LET s == SumOver(w.vals, DOMAIN w.vals)
    IN  [vals |-> [k \in DOMAIN w.vals |-> Sign(s) * w.vals[k]],
         den |-> IF DOMAIN w.vals = {} THEN w.den ELSE Abs(s)]

\* the division of line 500 raises
NormError(w) == DOMAIN w.vals # {} /\ SumOver(w.vals, DOMAIN w.vals) = 0

UnitInit == HttpInit

\* lines 455-465 on the entries of one candidate, and on the entries with one
\* more of similarity x
AggregateEntries(entries, x) ==
    /\ ret' = [op |-> "aggregate", scores |-> entries, x |-> x,
               agg |-> [mode \in AggModes |-> Aggregate(mode, entries)],
               more |-> Aggregate("sum_norm", OneMore(entries, x))]
    /\ UNCHANGED <<profiles, skills_idx, exp_idx, edu_idx, exp_agg_mode, disk, adds>>
    /\ UNCHANGED server

\* lines 499-500 on a mapping, and on the mapping they produce
NormalizeWeights(weights) ==
    /\ \E w \in {[vals |-> weights, den |-> 10]} :
           ret' = IF NormError(w)
                  THEN [op |-> "normalize", weights |-> weights, raised |-> TRUE]
                  ELSE [op |-> "normalize", weights |-> weights, raised |-> FALSE,
                        once |-> norm_w(w),
                        again |-> IF NormError(norm_w(w)) THEN <<>> ELSE <<norm_w(norm_w(w))>>]
    /\ UNCHANGED <<profiles, skills_idx, exp_idx, edu_idx, exp_agg_mode, disk, adds>>
    /\ UNCHANGED server

UnitNext ==
    \/ \E entries \in EntryLists, x \in {v \in Similarities : v > 0} : AggregateEntries(entries, x)
    \/ \E weights \in ProbeWeights : NormalizeWeights(weights)

UnitSpec == UnitInit /\ [][UnitNext]_vars

\* 1000 * (1 + ln(1 + n))
LogDen(n) == 1000 + LnTab[n]

\* C24 as stated: for the same entries the score under sum_norm is never
\* greater than the score under sum, and the two are equal only when the
\* candidate has at most one matching entry.
C24_NormBelowSumEqualAtOne ==
    ret.op = "aggregate" =>
        /\ ret.agg["sum_norm"] <= ret.agg["sum"]
        /\ ret.agg["sum_norm"] = ret.agg["sum"] => Len(ret.scores) <= 1

\* C24 amended: the score under sum_norm is never greater than the score
\* under sum, and the two are equal exactly when the clamp puts both on the
\* same bound: both 0 when the similarities sum to 0 or less, both 1 when
\* they sum to 1 + ln(1 + n) or more; a single entry of positive similarity
\* scores strictly less under sum_norm.
C24_NormBelowSumEqualWhenClamped ==
    ret.op = "aggregate" =>
        /\ ret.agg["sum_norm"] <= ret.agg["sum"]
        /\ ret.agg["sum_norm"] = ret.agg["sum"]
               <=> (\/ SumSeq(ret.scores) <= 0 /\ ret.agg["sum"] = 0
                    \/ 1000 * SumSeq(ret.scores) >= SCALE * LogDen(Len(ret.scores))
                       /\ ret.agg["sum_norm"] = SCALE)
        /\ (Len(ret.scores) = 1 /\ ret.scores[1] > 0) => ret.agg["sum_norm"] < ret.agg["sum"]

\* three matching entries whose similarities put both scores at 1
C24_Witness ==
    /\ ret.op = "aggregate" /\ Len(ret.scores) = 3
    /\ ret.agg["sum_norm"] = SCALE /\ ret.agg["sum"] = SCALE

\* C25 as stated: under sum_norm a candidate with score e that gains one more
\* matching entry of similarity x > 0 has a new score of at least
\* max(0, e - x).
C25_OneMoreEntryAboveDifference ==
    ret.op = "aggregate" => ret.more >= Max(0, ret.agg["sum_norm"] - ret.x)

\* C25 amended: the new score is at least e * (1 + ln(1 + n)) / (1 + ln(2 + n)),
\* n being the number of entries before (one unit of rounding allowed); it
\* is below e - x when x is small against e.
C25_OneMoreEntryAboveRatio ==
    ret.op = "aggregate" =>
        /\ ret.more >= 0
        /\ (ret.more + 1) * LogDen(Len(ret.scores) + 1)
               >= ret.agg["sum_norm"] * LogDen(Len(ret.scores))

\* one entry of similarity 1 gains an entry of similarity 0.01 and the score
\* falls by more than 0.01
C25_Witness ==
    /\ ret.op = "aggregate" /\ Len(ret.scores) = 1 /\ ret.x = 24
    /\ ret.more > 0 /\ ret.more < ret.agg["sum_norm"] - ret.x

\* two mappings hold the same weights
SameWeights(a, b) ==
    /\ DOMAIN a.vals = DOMAIN b.vals
    /\ \A k \in DOMAIN a.vals : a.vals[k] * b.den = b.vals[k] * a.den

BatchIds(files) ==
    {_extract_candidate_id(Unwrapped(files)[i].profile, Unwrapped(files)[i].path) :
         i \in 1..Len(Unwrapped(files))}

\* load_profiles request t ends in this step with status 200, and no other
\* load_profiles request ran between its first step and this one (the
\* others have not arrived, had returned before, or were refused)
LoadsAlone(t) ==
    /\ loads[t].pc = "embed" /\ loads'[t].pc = "done" /\ loads'[t].status = 200
    /\ loads[t].alone
    /\ \A u \in 1..MaxLoads \ {t} :
           \/ loads[u].pc = "idle"
           \/ loads[u].pc = "done" /\ u < t
           \/ loads[u].pc = "done" /\ "alone" \notin DOMAIN loads[u]

C30_ScoreNeedsProfiles ==
    [][\A t \in 1..MaxScores :
           /\ (scores[t].pc = "idle" /\ scores'[t].pc # "idle" /\ ~InvalidScore(scores'[t].req)) =>
                  IF SCORER = 0 \/ Len(heap[SCORER].profiles) = 0
                  THEN /\ scores'[t].pc = "done" /\ scores'[t].status = 400
                       /\ "results" \notin DOMAIN scores'[t]
                       /\ health.indexed_profiles = 0
                  ELSE scores'[t].pc = "call"
           /\ (scores[t].pc = "call" /\ scores'[t].pc = "done" /\ scores'[t].status = 200) =>
                  /\ scores'[t].count = Len(scores'[t].results)
                  /\ scores'[t].count = health.indexed_profiles]_vars

\* a score request was answered 200 with the two candidates a finished
\* load_profiles request indexed, and a health request reports the same count
C30_Witness ==
    /\ scores[1].pc = "done" /\ scores[1].status = 200 /\ scores[1].count = 2
    /\ scores[1].obj = SCORER /\ scores[1].loading = {}
    /\ loads[1].pc = "done" /\ loads[1].status = 200 /\ loads[2].pc = "idle"
    /\ ret.op = "health" /\ ret.value.indexed_profiles = scores[1].count

====
